---------------------------- MODULE Spec2Model ----------------------------
(***************************************************************************)
(* A model of drivers/net/can/slcan.c: the SLCAN ASCII framing codec       *)
(* (slc_encaps, slc_bump, slcan_unesc), the receive path of a channel      *)
(* (slcan_receive_buf), the transmit path of its multiplexed net devices   *)
(* (slc_xmit, slcan_write_wakeup) and their open/close routines.           *)
(*                                                                         *)
(* Bytes are their ASCII codes.  C arrays are functions on 0..n-1, C       *)
(* strings are sequences (the bytes before the first NUL).                 *)
(***************************************************************************)
EXTENDS Integers, Sequences, FiniteSets, TLC

(***************************************************************************)
(* Program constants                                                       *)
(***************************************************************************)
MUX_NETDEV_MAX == 10
\* sizeof("0T1111222281122334455667788EA5F\r") + 1: 32 characters, the NUL, + 1
SLC_MTU == 34
CR == 13
BEL == 7
NUL == 0
LF == 10

\* can_id is a u32: bit 31 is CAN_EFF_FLAG, bit 30 CAN_RTR_FLAG, bit 29
\* CAN_ERR_FLAG, bits 0..28 the identifier (CAN_EFF_MASK), of which bits
\* 0..10 are CAN_SFF_MASK.  It is kept as [id, err, rtr, eff], its bits
\* 0..28 and its three flag bits.
CAN_SFF_MASK == 2047
CAN_EFF_MASK == 536870911

\* the module parameter maxchannel, at the least value slcan_init leaves it
maxchannel == 4

(***************************************************************************)
(* Bounds of the model                                                     *)
(***************************************************************************)
\* how many payload patterns the sampled frames carry
MaxPattern == 2
\* how many times the tty hands a block of bytes to slcan_receive_buf
MaxRecv == 3
\* how many frames the network layer submits to slc_xmit
MaxXmit == 2
\* how many times net devices are brought up or down (dev_open, dev_close)
MaxAdmin == 1
MaxPart == 2
MaxLines == 2
MaxBlocks == 2
MaxTty == 3
MaxEndpointBlocks == 1
ParamBelow == 3
ParamHigh == 14

(***************************************************************************)
(* C helpers                                                               *)
(***************************************************************************)
\* x & flag != 0, for a flag that is one bit
HasBit(x, flag) == (x \div flag) % 2 = 1

\* x | flag, for a flag that is one bit
SetBit(x, flag) == IF HasBit(x, flag) THEN x ELSE x + flag

\* "%x" of one nibble (a plausible slip for "%X")
LowerHexDigit(n) == IF n < 10 THEN 48 + n ELSE 87 + n

\* "%X" of one nibble
UpperHexDigit(n) == IF n < 10 THEN 48 + n ELSE 55 + n

RECURSIVE HexString(_)
\* "%X": the shortest uppercase hexadecimal numeral of v
HexString(v) ==
    IF v < 16 THEN << UpperHexDigit(v) >>
    ELSE Append(HexString(v \div 16), UpperHexDigit(v % 16))

RECURSIVE DecString(_)
\* "%d": the shortest decimal numeral of v >= 0
DecString(v) ==
    IF v < 10 THEN << 48 + v >>
    ELSE Append(DecString(v \div 10), 48 + (v % 10))

RECURSIVE ZeroPad(_, _)
\* the 0 flag with a field width: zeros on the left up to width w
ZeroPad(s, w) == IF Len(s) >= w THEN s ELSE ZeroPad(<< 48 >> \o s, w)

\* "%X" without a field width (a plausible slip for "%03X" / "%08X")
SprintfHexNoPad(v, w) == HexString(v)

\* a format of twice the width
SprintfHexWide(v, w) == ZeroPad(HexString(v), 2 * w)

\* "%03X", "%08X", "%02X"
SprintfHex(v, w) == ZeroPad(HexString(v), w)

\* lib/hexdump.c hex_to_bin(): 0..15, or -1
hex_to_bin(ch) ==
    IF ch >= 48 /\ ch <= 57 THEN ch - 48
    ELSE IF ch >= 97 /\ ch <= 102 THEN ch - 97 + 10
    ELSE IF ch >= 65 /\ ch <= 70 THEN ch - 65 + 10
    ELSE -1

RECURSIVE CString(_, _)
\* the C string that starts at rb[i]: the bytes before the first NUL
CString(rb, i) ==
    IF i \notin DOMAIN rb \/ rb[i] = NUL THEN << >>
    ELSE << rb[i] >> \o CString(rb, i + 1)

RECURSIVE HexPrefixLen(_)
\* how many leading characters of s are hexadecimal digits
HexPrefixLen(s) ==
    IF s = << >> \/ hex_to_bin(Head(s)) < 0 THEN 0
    ELSE 1 + HexPrefixLen(Tail(s))

RECURSIVE HexValue(_, _)
\* the value of the hexadecimal digits s, accumulated from acc
HexValue(s, acc) ==
    IF s = << >> THEN acc
    ELSE HexValue(Tail(s), acc * 16 + hex_to_bin(Head(s)))

\* the u32 that at most 8 hexadecimal digits denote, as a can_id
U32OfHex(d) ==
    LET n  == Len(d)
        hi == IF n >= 8 THEN hex_to_bin(d[n - 7]) ELSE 0
        lo == HexValue(SubSeq(d, IF n > 7 THEN n - 6 ELSE 1, n), 0)
    IN  [id  |-> (hi % 2) * 268435456 + lo,
         err |-> (hi \div 2) % 2 = 1,
         rtr |-> (hi \div 4) % 2 = 1,
         eff |-> (hi \div 8) % 2 = 1]

\* strict_strtoul(s, 16, &res) (kstrtoul): an optional '+', an optional
\* "0x"/"0X", at least one hexadecimal digit, an optional final newline,
\* and nothing else.  The result is [ok, val].
strict_strtoul16(s) ==
    LET s1 == IF s # << >> /\ Head(s) = 43 THEN Tail(s) ELSE s
        s2 == IF Len(s1) >= 2 /\ s1[1] = 48 /\ (s1[2] = 120 \/ s1[2] = 88)
              THEN SubSeq(s1, 3, Len(s1)) ELSE s1
        n  == HexPrefixLen(s2)
        rest == SubSeq(s2, n + 1, Len(s2))
        rest2 == IF rest # << >> /\ Head(rest) = LF THEN Tail(rest) ELSE rest
    IN  IF n = 0 \/ rest2 # << >>
        THEN [ok |-> FALSE, val |-> U32OfHex(<< >>)]
        ELSE [ok |-> TRUE, val |-> U32OfHex(SubSeq(s2, 1, n))]

(***************************************************************************)
(* struct can_frame                                                        *)
(***************************************************************************)
NoData == [i \in 0..7 |-> 0]

\* a can_frame from the fields the wire format speaks of
MkFrame(id, eff, rtr, dlc, data) ==
    [can_id  |-> [id |-> id, err |-> FALSE, rtr |-> rtr, eff |-> eff],
     can_dlc |-> dlc,
     data    |-> data]

(***************************************************************************)
(* slc_encaps: the bytes it leaves in xbuff (up to the NUL)                *)
(***************************************************************************)
RECURSIVE EncapsData(_, _, _)
\* for (i = 0; i < cf->can_dlc; i++) sprintf(&xbuff[idx + 2*i], "%02X", ...)
EncapsData(cf, i, out) ==
    IF i >= cf.can_dlc THEN out
    ELSE EncapsData(cf, i + 1, out \o SprintfHex(cf.data[i], 2))

slc_encaps_buf(cf, dev_idx, mux) ==
    LET cmd == IF cf.can_id.rtr THEN 82 ELSE 84
        body == IF cf.can_id.eff
                THEN << cmd >>
                     \o SprintfHex(cf.can_id.id % (CAN_EFF_MASK + 1), 8)
                     \o DecString(cf.can_dlc)
                ELSE << SetBit(cmd, 32) >>
                     \o SprintfHex(cf.can_id.id % (CAN_SFF_MASK + 1), 3)
                     \o DecString(cf.can_dlc)
        head == IF mux < 2 THEN body ELSE << dev_idx + 48 >> \o body
    IN  EncapsData(cf, 0, head) \o << CR >>


(***************************************************************************)
(* slc_bump and slcan_unesc, on the receive state of a channel:            *)
(* c = [rbuff, rcount, error, dev, stats, rxq, oops]                       *)
(***************************************************************************)
RECURSIVE BumpData(_, _, _, _, _)
\* the payload loop of slc_bump from data byte i at rbuff position pos:
\* [ok, data], ok being FALSE at the first character that is no hex digit
BumpData(rb, pos, i, dlc, data) ==
    IF i >= dlc THEN [ok |-> TRUE, data |-> data]
    ELSE LET hi == hex_to_bin(rb[pos])
             lo == hex_to_bin(rb[pos + 1])
         IN  IF hi < 0 \/ lo < 0 THEN [ok |-> FALSE, data |-> data]
             ELSE BumpData(rb, pos + 2, i + 1, dlc,
                           [data EXCEPT ![i] = hi * 16 + lo])

\* a slip: the frame and its counters always go to sl->dev[0]
DeliverToZero(c, dev_idx, cf) ==
    [c EXCEPT !.rxq = Append(@, [dev |-> 0, cf |-> cf]),
              !.stats[0].rx_packets = @ + 1,
              !.stats[0].rx_bytes = @ + cf.can_dlc]

\* netif_rx_ni(skb) and the two rx counters of the addressed device
Deliver(c, dev_idx, cf) ==
    [c EXCEPT !.rxq = Append(@, [dev |-> dev_idx, cf |-> cf]),
              !.stats[dev_idx].rx_packets = @ + 1,
              !.stats[dev_idx].rx_bytes = @ + cf.can_dlc]

\* a slip: <= for < in the test of the dlc character against '9'
slc_bump_dlc_nine(c) ==
    LET rb  == c.rbuff
        ext_frame == IF rb[0] >= 48 /\ rb[0] <= 57 THEN 1 ELSE 0
        cmd == rb[ext_frame]
        dlc_pos == IF HasBit(cmd, 32) THEN 4 + ext_frame ELSE 9 + ext_frame
        can_dlc == rb[dlc_pos] - 48
        rb1 == [rb EXCEPT ![dlc_pos] = NUL]
        c1  == [c EXCEPT !.rbuff = rb1]
        id  == strict_strtoul16(CString(rb1, 1 + ext_frame))
        id1 == IF ~HasBit(cmd, 32) THEN [id.val EXCEPT !.eff = TRUE] ELSE id.val
        id2 == IF SetBit(cmd, 32) = 114 THEN [id1 EXCEPT !.rtr = TRUE] ELSE id1
        data == BumpData(rb1, dlc_pos + 1, 0, can_dlc, NoData)
        dev_idx == IF ext_frame = 1 THEN rb[0] - 48 ELSE 0
    IN  IF cmd \notin {116, 84, 114, 82} THEN c
        ELSE IF ~(rb[dlc_pos] >= 48 /\ rb[dlc_pos] <= 57) THEN c
        ELSE IF ~id.ok THEN c1
        ELSE IF ~data.ok THEN c1
        ELSE IF ~c.dev[dev_idx] THEN c1
        ELSE Deliver(c1, dev_idx,
                     [can_id |-> id2, can_dlc |-> can_dlc, data |-> data.data])

\* Send one completely decapsulated can_frame to the network layer.
\* dev_alloc_skb() is taken to succeed.
slc_bump(c) ==
    LET rb  == c.rbuff
        ext_frame == IF rb[0] >= 48 /\ rb[0] <= 57 THEN 1 ELSE 0
        cmd == rb[ext_frame]
        dlc_pos == IF HasBit(cmd, 32) THEN 4 + ext_frame ELSE 9 + ext_frame
        can_dlc == rb[dlc_pos] - 48
        rb1 == [rb EXCEPT ![dlc_pos] = NUL]
        c1  == [c EXCEPT !.rbuff = rb1]
        id  == strict_strtoul16(CString(rb1, 1 + ext_frame))
        id1 == IF ~HasBit(cmd, 32) THEN [id.val EXCEPT !.eff = TRUE] ELSE id.val
        id2 == IF SetBit(cmd, 32) = 114 THEN [id1 EXCEPT !.rtr = TRUE] ELSE id1
        data == BumpData(rb1, dlc_pos + 1, 0, can_dlc, NoData)
        dev_idx == IF ext_frame = 1 THEN rb[0] - 48 ELSE 0
    IN  IF cmd \notin {116, 84, 114, 82} THEN c
        ELSE IF ~(rb[dlc_pos] >= 48 /\ rb[dlc_pos] < 57) THEN c
        ELSE IF ~id.ok THEN c1
        ELSE IF ~data.ok THEN c1
        ELSE IF ~c.dev[dev_idx] THEN c1
        ELSE Deliver(c1, dev_idx,
                     [can_id |-> id2, can_dlc |-> can_dlc, data |-> data.data])

\* a slip: the overflow branch without the test of SLF_ERROR around it
slcan_unesc_count_each(c, s) ==
    IF s = CR \/ s = BEL
    THEN LET c1 == [c EXCEPT !.error = FALSE]
             c2 == IF ~c.error /\ c.rcount > 4 THEN slc_bump(c1) ELSE c1
         IN  [c2 EXCEPT !.rcount = 0]
    ELSE IF c.rcount < SLC_MTU
         THEN IF c.error THEN c
              ELSE [c EXCEPT !.rbuff[c.rcount] = s, !.rcount = @ + 1]
         ELSE [c EXCEPT !.stats[0].rx_over_errors = @ + 1, !.error = TRUE]

\* a slip: test_bit for test_and_clear_bit
slcan_unesc_test_bit(c, s) ==
    IF s = CR \/ s = BEL
    THEN LET c2 == IF ~c.error /\ c.rcount > 4 THEN slc_bump(c) ELSE c
         IN  [c2 EXCEPT !.rcount = 0]
    ELSE IF c.error THEN c
    ELSE IF c.rcount < SLC_MTU
         THEN [c EXCEPT !.rbuff[c.rcount] = s, !.rcount = @ + 1]
         ELSE [c EXCEPT !.stats[0].rx_over_errors = @ + 1, !.error = TRUE]

\* a slip: <= for < in the test of rcount against SLC_MTU
slcan_unesc_off_by_one(c, s) ==
    IF s = CR \/ s = BEL
    THEN LET c1 == [c EXCEPT !.error = FALSE]
             c2 == IF ~c.error /\ c.rcount > 4 THEN slc_bump(c1) ELSE c1
         IN  [c2 EXCEPT !.rcount = 0]
    ELSE IF c.error THEN c
    ELSE IF c.rcount <= SLC_MTU
         THEN [c EXCEPT !.rbuff = [i \in DOMAIN c.rbuff \cup {c.rcount} |->
                                      IF i = c.rcount THEN s ELSE c.rbuff[i]],
                        !.rcount = @ + 1]
         ELSE [c EXCEPT !.stats[0].rx_over_errors = @ + 1, !.error = TRUE]

\* a slip: lines of four characters are decoded too
slcan_unesc_min_four(c, s) ==
    IF s = CR \/ s = BEL
    THEN LET c1 == [c EXCEPT !.error = FALSE]
             c2 == IF ~c.error /\ c.rcount > 3 THEN slc_bump(c1) ELSE c1
         IN  [c2 EXCEPT !.rcount = 0]
    ELSE IF c.error THEN c
    ELSE IF c.rcount < SLC_MTU
         THEN [c EXCEPT !.rbuff[c.rcount] = s, !.rcount = @ + 1]
         ELSE IF ~c.dev[0]
              THEN [c EXCEPT !.oops = "slcan_unesc: sl->dev[0] is NULL"]
              ELSE [c EXCEPT !.stats[0].rx_over_errors = @ + 1,
                             !.error = TRUE]

\* parse tty input stream: one character s
slcan_unesc(c, s) ==
    IF s = CR \/ s = BEL
    THEN LET c1 == [c EXCEPT !.error = FALSE]
             c2 == IF ~c.error /\ c.rcount > 4 THEN slc_bump(c1) ELSE c1
         IN  [c2 EXCEPT !.rcount = 0]
    ELSE IF c.error THEN c
    ELSE IF c.rcount < SLC_MTU
         THEN [c EXCEPT !.rbuff[c.rcount] = s, !.rcount = @ + 1]
         ELSE IF ~c.dev[0]
              THEN [c EXCEPT !.oops = "slcan_unesc: sl->dev[0] is NULL"]
              ELSE [c EXCEPT !.stats[0].rx_over_errors = @ + 1,
                             !.error = TRUE]

(***************************************************************************)
(* State                                                                   *)
(***************************************************************************)
VARIABLES
    muxnetdevs,       \* module parameter, after slcan_init has clamped it
    tty,              \* sl->tty != NULL
    disc_data,        \* tty->disc_data == sl
    do_write_wakeup,  \* TTY_DO_WRITE_WAKEUP in tty->flags
    dev,              \* dev[i]: sl->dev[i] != NULL
    lock,             \* sl->lock: "free", or who holds it
    rbuff,            \* sl->rbuff
    rcount,           \* sl->rcount
    error,            \* SLF_ERROR in sl->flags
    running,          \* running[i]: netif_running(sl->dev[i])
    queue_stopped,    \* queue_stopped[i]: netif_queue_stopped(sl->dev[i])
    xbuff,            \* xbuff[i]: the C string in sl_dev->xbuff
    xhead,            \* xhead[i]: sl_dev->xhead - sl_dev->xbuff
    xleft,            \* xleft[i]: sl_dev->xleft
    stats,            \* stats[i]: sl->dev[i]->stats
    rxq,              \* the frames handed to netif_rx_ni, in order
    oops,             \* "" or the fault the kernel stopped at
    rxp,              \* slcan_receive_buf in progress: its (cp, fp) left
    hist,             \* what the tty has delivered so far, line by line
    xm,               \* slc_xmit in progress: its place, device and frame
    wk,               \* slcan_write_wakeup in progress: its place and i
    adm,              \* dev_close in progress: its place and device
    hup,              \* slcan_close in progress: its place and i
    sent,             \* sent[i]: the bytes of xbuff[i] the tty accepted
    txh,              \* what the network layer has submitted so far
    codec,            \* the codec check: its frame, address and position
    slcan_channels,   \* slcan_channels[i]: the channel in slot i, or none
    ttys,             \* ttys[t]: the slot tty t's disc_data points to, or -1
    opn,              \* the last slcan_open: its result and what it found
    reg,              \* rtnl_lock, and slcan_open and slc_free_netdev in progress
    param             \* the module parameters as given, and slcan_init's result

chanvars == << tty, disc_data, do_write_wakeup, dev, lock >>
rxvars   == << rbuff, rcount, error, rxq >>
txvars   == << running, queue_stopped, xbuff, xhead, xleft >>
envvars  == << rxp, hist >>
procvars == << xm, wk, adm, hup >>
txenv    == << sent, txh >>
regvars  == << slcan_channels, ttys, opn, reg >>
vars     == << muxnetdevs, chanvars, rxvars, txvars, stats, oops, envvars,
               procvars, txenv, codec, regvars, param >>

Devs == 0 .. (muxnetdevs - 1)
Slots == 0 .. (MUX_NETDEV_MAX - 1)

ZeroStats ==
    [rx_packets |-> 0, rx_bytes |-> 0, rx_errors |-> 0, rx_over_errors |-> 0,
     tx_packets |-> 0, tx_bytes |-> 0]

\* the receive state of the channel as slc_bump and slcan_unesc take it
ChanRx ==
    [rbuff |-> rbuff, rcount |-> rcount, error |-> error, dev |-> dev,
     stats |-> stats, rxq |-> rxq, oops |-> oops]

SetChanRx(c) ==
    /\ rbuff' = c.rbuff
    /\ rcount' = c.rcount
    /\ error' = c.error
    /\ stats' = c.stats
    /\ rxq' = c.rxq
    /\ oops' = c.oops

\* the record kept of one line of input: its clean bytes before the
\* terminator, whether a byte of it had a line error, and the number of
\* frames delivered and of overflows charged to device 0 when it began
NewLine(nrx, over) ==
    [line |-> << >>, lerr |-> FALSE, nrx |-> nrx, over0 |-> over]

\* no slc_xmit in progress
XmIdle == [pc |-> "idle", dev |-> 0, cf |-> MkFrame(0, FALSE, FALSE, 0, NoData),
           actual |-> 0]

\* no slcan_write_wakeup in progress
WkIdle == [pc |-> "idle", i |-> 0, actual |-> 0]

\* a channel as slc_alloc and slcan_open leave it, with mux net devices
\* registered and the net devices of up brought up by slc_open
\* the slots of slcan_channels[] and the ttys that can be opened
Chans == 0 .. (maxchannel - 1)
Ttys == 1 .. MaxTty

\* slcan_channels[i] == NULL
NoChannel ==
    [used |-> FALSE, tty |-> 0, inuse |-> FALSE, closing |-> FALSE,
     dev |-> [j \in Slots |-> "null"]]

\* slcan_init has run with maxchannel and mux as the parameters given
Loaded(mux) ==
    [loaded |-> TRUE, status |-> "0", maxchannel |-> maxchannel,
     given |-> [maxchannel |-> TRUE, muxnetdevs |-> TRUE],
     cfg |-> [maxchannel |-> maxchannel, muxnetdevs |-> mux]]

\* no slcan_open has run yet
NoOpen ==
    [ret |-> "none", allocd |-> 0, registered |-> 0, full |-> FALSE,
     alloc |-> FALSE, bound |-> FALSE, kept |-> TRUE]

\* rtnl_lock is free; no slcan_open and no slc_free_netdev is in progress
NoReg ==
    [rtnl |-> 0,
     open |-> [t \in Ttys |->
                 [pc |-> "idle", i |-> 0, j |-> 0, freed |-> FALSE]],
     free |-> [pc |-> "idle", i |-> 0, c |-> 0],
     lost |-> FALSE, oops |-> ""]

InitChannel(mux, up) ==
    /\ muxnetdevs = mux
    /\ tty = TRUE
    /\ disc_data = TRUE
    /\ do_write_wakeup = FALSE
    /\ dev = [i \in Slots |-> i < mux]
    /\ lock = "free"
    /\ rbuff = [i \in 0 .. (SLC_MTU - 1) |-> NUL]
    /\ rcount = 0
    /\ error = FALSE
    /\ running = [i \in Slots |-> i \in up]
    /\ queue_stopped = [i \in Slots |-> FALSE]
    /\ xbuff = [i \in Slots |-> << >>]
    /\ xhead = [i \in Slots |-> 0]
    /\ xleft = [i \in Slots |-> 0]
    /\ stats = [i \in Slots |-> ZeroStats]
    /\ rxq = << >>
    /\ oops = ""
    /\ rxp = << >>
    /\ hist = [calls |-> 0, last |-> "none", cur |-> NewLine(0, 0),
               done |-> << >>]
    /\ xm = XmIdle
    /\ wk = WkIdle
    /\ adm = [pc |-> "idle", dev |-> 0]
    /\ hup = [pc |-> "idle", i |-> 0]
    /\ sent = [i \in Slots |-> << >>]
    /\ txh = [nxmit |-> 0, nadm |-> 0, drained |-> [i \in Slots |-> 0],
              call |-> [dev |-> 0, kind |-> "none"],
              ret |-> [down |-> "none", notty |-> "none", sent |-> "none"],
              warned |-> FALSE, open |-> "none"]
    /\ slcan_channels =
           [c \in Chans |->
               IF c = 0
               THEN [used |-> TRUE, tty |-> 1, inuse |-> TRUE,
                     closing |-> FALSE,
                     dev |-> [j \in Slots |->
                                 IF j \in up THEN "up"
                                 ELSE IF j < mux THEN "reg" ELSE "null"]]
               ELSE NoChannel]
    /\ ttys = [t \in Ttys |-> IF t = 1 THEN 0 ELSE -1]
    /\ opn = NoOpen
    /\ reg = NoReg
    /\ param = Loaded(mux)

(***************************************************************************)
(* The codec alone: slc_encaps of a frame, then its bytes through          *)
(* slcan_unesc one by one                                                  *)
(***************************************************************************)
SampleData(p) ==
    IF p = 1 THEN << 170, 85, 0, 255, 15, 240, 18, 239 >>
    ELSE IF p = 2 THEN << 17, 34, 51, 68, 85, 102, 119, 136 >>
    ELSE [i \in 1..8 |-> (p * 37 + i * 59) % 256]

\* the payload patterns, as data[0..7]
Pattern(p) == [i \in 0..7 |-> SampleData(p)[i + 1]]

StdIds == {0, 291, 1110, 2047}
ExtIds == {0, 291, 313249263, 536870911}

\* id=0x12ABCDEF extended, dlc=2, data AA 55
ScenarioC == MkFrame(313249263, TRUE, FALSE, 2, Pattern(1))
\* id=0x123, dlc=0
ScenarioE == MkFrame(291, FALSE, FALSE, 0, Pattern(1))

SampleFrames ==
    { MkFrame(id, FALSE, rtr, dlc, Pattern(p)) :
        id \in StdIds, rtr \in BOOLEAN, dlc \in 0..8, p \in 1..MaxPattern }
    \cup
    { MkFrame(id, TRUE, rtr, dlc, Pattern(p)) :
        id \in ExtIds, rtr \in BOOLEAN, dlc \in 0..8, p \in 1..MaxPattern }

InitCodec ==
    /\ \E mux \in 1..MUX_NETDEV_MAX : InitChannel(mux, 0 .. (mux - 1))
    /\ \E cf \in SampleFrames, d \in Devs :
           codec = [cf |-> cf, dst |-> d, pos |-> -1]

\* slc_encaps up to the strcat: the frame is in xbuff
CodecEncaps ==
    /\ codec.pos = -1
    /\ xbuff' = [xbuff EXCEPT ![codec.dst] =
                     slc_encaps_buf(codec.cf, codec.dst, muxnetdevs)]
    /\ codec' = [codec EXCEPT !.pos = 0]
    /\ UNCHANGED << muxnetdevs, param, regvars, chanvars, rxvars, stats, oops, envvars,
                    procvars, txenv, running, queue_stopped, xhead, xleft >>

\* slcan_unesc of the next byte of xbuff
CodecFeed ==
    /\ codec.pos >= 0
    /\ codec.pos < Len(xbuff[codec.dst])
    /\ SetChanRx(slcan_unesc(ChanRx, xbuff[codec.dst][codec.pos + 1]))
    /\ codec' = [codec EXCEPT !.pos = @ + 1]
    /\ UNCHANGED << muxnetdevs, param, regvars, chanvars, txvars, envvars, procvars, txenv >>

NextCodec == CodecEncaps \/ CodecFeed

SpecCodec == InitCodec /\ [][NextCodec]_vars

(***************************************************************************)
(* The receive path: slcan_receive_buf, one character per step             *)
(***************************************************************************)
RxIdFrame == MkFrame(291, FALSE, FALSE, 0, Pattern(1))
RxDataFrame == MkFrame(1110, FALSE, FALSE, 3, Pattern(2))

\* the frames the peer sends in the receive runs
RxFrames == { RxIdFrame, RxDataFrame, ScenarioC }

\* n times the character ch
Run(ch, n) == [i \in 1..n |-> ch]

\* the character blocks (cp) the tty may deliver in one call
RxBlocks(mux) ==
    { slc_encaps_buf(cf, d, mux) : cf \in RxFrames, d \in 0 .. (mux - 1) }
    \cup { << 116, 49, 50 >>,                    \* "t12"
           << 51, 48, BEL >>,                    \* "30" BEL
           << 116, 49, 50, 71, 48, CR >>,        \* "t12G0" CR
           << CR >>,
           << BEL >>,
           << 49, 116 >> \o Run(53, SLC_MTU),    \* "1t555..." two too many
           Run(53, SLC_MTU - 4),
           Run(53, 5) }

\* a block with its flags (fp): all clear, or the first character in error
RxChunks(mux) ==
    { [i \in 1..Len(b) |-> [ch |-> b[i], fp |-> FALSE]] : b \in RxBlocks(mux) }
    \cup { << [ch |-> 53, fp |-> TRUE] >>,
           << [ch |-> CR, fp |-> TRUE], [ch |-> 49, fp |-> FALSE] >> }

InitRx ==
    /\ \E mux \in 1..2 : \E up \in { {}, 0 .. (mux - 1) } : InitChannel(mux, up)
    /\ codec = [cf |-> RxIdFrame, dst |-> 0, pos |-> -1]

\* slcan_receive_buf up to its loop, for one of the blocks in chunks, the
\* tty making at most max calls
ReceiveBuf(chunks, max) ==
    /\ oops = ""
    /\ rxp = << >>
    /\ hist.calls < max
    /\ \E chunk \in chunks :
          /\ hist' = [hist EXCEPT !.calls = @ + 1, !.last = "none"]
          /\ IF ~disc_data
             THEN UNCHANGED << rxp, oops >>
             ELSE IF ~dev[0]
             THEN /\ oops' = "slcan_receive_buf: sl->dev[0] is NULL"
                  /\ UNCHANGED rxp
             ELSE IF ~running[0]
             THEN UNCHANGED << rxp, oops >>
             ELSE /\ rxp' = chunk
                  /\ UNCHANGED oops
    /\ UNCHANGED << muxnetdevs, param, regvars, chanvars, rxvars, txvars, stats, procvars,
                    txenv, codec >>

slcan_receive_buf == ReceiveBuf(RxChunks(muxnetdevs), MaxRecv)

\* what the line records keep of one character
HistByte(h, b, c) ==
    IF b.fp
    THEN [h EXCEPT !.last = "lineerr", !.cur.lerr = TRUE]
    ELSE IF b.ch = CR \/ b.ch = BEL
    THEN [h EXCEPT !.last = "term",
                   !.done = Append(@, h.cur),
                   !.cur = NewLine(Len(c.rxq), c.stats[0].rx_over_errors)]
    ELSE [h EXCEPT !.last = "char", !.cur.line = Append(@, b.ch)]

\* a slip: set_bit for test_and_set_bit, rx_errors counted for every
\* character in error
LineErrorEach(c) ==
    IF ~c.dev[0]
    THEN [c EXCEPT !.oops = "slcan_receive_buf: sl->dev[0] is NULL"]
    ELSE [c EXCEPT !.error = TRUE, !.stats[0].rx_errors = @ + 1]

\* if (fp && *fp++): a character the tty reports in error
LineError(c) ==
    IF c.error THEN c
    ELSE IF ~c.dev[0]
    THEN [c EXCEPT !.oops = "slcan_receive_buf: sl->dev[0] is NULL"]
    ELSE [c EXCEPT !.error = TRUE, !.stats[0].rx_errors = @ + 1]

\* one turn of the while (count--) loop of slcan_receive_buf
slcan_receive_buf_char ==
    /\ oops = ""
    /\ rxp # << >>
    /\ LET b == Head(rxp)
           c == IF b.fp THEN LineError(ChanRx) ELSE slcan_unesc(ChanRx, b.ch)
       IN  /\ SetChanRx(c)
           /\ hist' = HistByte(hist, b, c)
    /\ rxp' = Tail(rxp)
    /\ UNCHANGED << muxnetdevs, param, regvars, chanvars, txvars, procvars, txenv, codec >>

NextRx == slcan_receive_buf \/ slcan_receive_buf_char

SpecRx == InitRx /\ [][NextRx]_vars

(***************************************************************************)
(* The decoder alone: whole lines through slcan_receive_buf                *)
(***************************************************************************)
\* the lines the peer sends: frames of every kind, and broken ones
DecodeLines ==
    { << 116, 49, 50, 51, 48 >>,   \* "t1230": scenario A
      << 114, 49, 50, 51, 48 >>,   \* "r1230": scenario D
      << 84, 49, 50, 65, 66, 67, 68, 69, 70, 50, 65, 65, 53, 53 >>,
          \* "T12ABCDEF2AA55": scenario C
      << 116, 52, 53, 54, 51, 49, 49, 50, 50, 51, 51 >>,   \* "t4563112233": scenario B
      << 49, 116, 49, 50, 51, 48 >>,   \* "1t1230": scenario E
      << 48, 116, 49, 50, 51, 48 >>,   \* "0t1230": address 0
      << 53, 116, 49, 50, 51, 48 >>,   \* "5t1230": an address without net device
      << 82, 49, 70, 70, 70, 70, 70, 70, 70, 48 >>,   \* "R1FFFFFFF0": the largest 29-bit id
      << 84, 70, 70, 70, 70, 70, 70, 70, 70, 48 >>,   \* "TFFFFFFFF0": id digits with bits 29..31 set
      << 116, 70, 70, 70, 48 >>,   \* "tFFF0": three id digits above 0x7FF
      << 116, 55, 70, 70, 56, 49, 49, 50, 50, 51, 51, 52, 52, 53, 53, 54, 54, 55, 55, 56, 56 >>,
          \* "t7FF81122334455667788": eight data bytes
      << 120, 49, 50, 51, 48 >>,   \* "x1230": no type character
      << 116, 49, 50, 51, 57 >>,   \* "t1239": dlc 9
      << 116, 49, 50, 71, 48 >>,   \* "t12G0": no hex digit in the id
      << 116, 49, 50, 51, 49, 90, 90 >>,   \* "t1231ZZ": no hex digits in the data
      << 116, 49, 0, 0, 48 >>,   \* "t1", NUL, NUL, "0": NUL characters in the id
      << 116, 49, 50, 51, 56 >>,   \* "t1238": dlc 8 and no data
      << 116, 49, 50, 51, 50, 65, 65 >>,   \* "t1232AA": dlc 2 and one data byte
      << 84, 49, 50, 51, 52 >>,   \* "T1234": five characters of an extended frame
      << 116, 49, 50, 51 >> }   \* "t123": four characters

\* a line and its terminator as one block from the tty, all flags clear
DecodeChunks ==
    { [i \in 1..(Len(l) + 1) |->
          [ch |-> IF i <= Len(l) THEN l[i] ELSE t, fp |-> FALSE]] :
      l \in DecodeLines, t \in {CR, BEL} }

InitDecode ==
    /\ \E mux \in 1..2 : InitChannel(mux, 0 .. (mux - 1))
    /\ codec = [cf |-> RxIdFrame, dst |-> 0, pos |-> -1]

slcan_receive_buf_line == ReceiveBuf(DecodeChunks, MaxLines)

NextDecode == slcan_receive_buf_line \/ slcan_receive_buf_char

SpecDecode == InitDecode /\ [][NextDecode]_vars

(***************************************************************************)
(* The transmit path: slc_xmit and slc_encaps under sl->lock, and          *)
(* slcan_write_wakeup, which takes no lock; one memory access or call to   *)
(* the tty per step where another context can see the difference           *)
(***************************************************************************)
\* the frames the network layer submits
TxFrames == { RxIdFrame }

\* what tty->ops->write may return when offered n bytes: nothing, a part,
\* or all of them
Accepts(n) == { 0, MaxPart, n } \cap (0 .. n)

\* n bytes from sl_dev->xhead on; past the string lies its NUL
BytesAt(buf, head, n) ==
    [k \in 1..n |-> IF head + k \in 1..Len(buf) THEN buf[head + k] ELSE NUL]

\* the frame in xbuff[i] has now gone to the tty completely
Drained(i, was, now) == IF now = xbuff[i] /\ was # now THEN 1 ELSE 0

InitTx ==
    /\ \E mux \in 1..2 : \E up \in SUBSET (0 .. (mux - 1)) : InitChannel(mux, up)
    /\ codec = [cf |-> RxIdFrame, dst |-> 0, pos |-> -1]

\* a slip: no test of netif_running(dev)
XmitKindNoCheck(e) == IF ~tty THEN "notty" ELSE "sent"

\* what slc_xmit does with a frame for net device e: "down" (the printk and
\* out), "notty" (out) or "sent" (slc_encaps)
XmitKind(e) ==
    IF ~running[e] THEN "down" ELSE IF ~tty THEN "notty" ELSE "sent"

\* the call of slc_xmit for e is recorded: its kind, and for a frame that
\* is dropped the printk and the value returned after out:
XmitCall(e, kind) ==
    [txh EXCEPT !.nxmit = @ + 1,
                !.call = [dev |-> e, kind |-> kind],
                !.ret = IF kind = "sent" THEN @
                        ELSE [@ EXCEPT ![kind] = "NETDEV_TX_OK"],
                !.warned = @ \/ kind = "down"]

\* slc_xmit from spin_lock to netif_stop_queue.  The network layer calls it
\* for a device that is up (or whose dev_close has only just cleared
\* __LINK_STATE_START) and whose queue is not stopped.
slc_xmit(e, cf) ==
    /\ oops = ""
    /\ xm.pc = "idle"
    /\ lock = "free"
    /\ dev[e]
    /\ ~queue_stopped[e]
    /\ running[e] \/ (adm.pc = "stop" /\ adm.dev = e)
    /\ txh.nxmit < MaxXmit
    /\ txh' = XmitCall(e, XmitKind(e))
    /\ IF XmitKind(e) # "sent"
       THEN UNCHANGED << xm, lock, queue_stopped >>
       ELSE /\ lock' = "slc_xmit"
            /\ queue_stopped' = [queue_stopped EXCEPT ![e] = TRUE]
            /\ xm' = [pc |-> "locked", dev |-> e, cf |-> cf, actual |-> 0]
    /\ UNCHANGED << muxnetdevs, param, regvars, tty, disc_data, do_write_wakeup, dev, rxvars,
                    running, xbuff, xhead, xleft, stats, oops, envvars,
                    wk, adm, hup, sent, codec >>

\* slc_encaps: the sprintf()s into xbuff, then set_bit(TTY_DO_WRITE_WAKEUP)
slc_encaps_set_bit ==
    /\ oops = ""
    /\ xm.pc = "locked"
    /\ xbuff' = [xbuff EXCEPT ![xm.dev] =
                     slc_encaps_buf(xm.cf, xm.dev, muxnetdevs)]
    /\ sent' = [sent EXCEPT ![xm.dev] = << >>]
    /\ IF ~tty
       THEN /\ oops' = "slc_encaps: sl->tty is NULL"
            /\ UNCHANGED do_write_wakeup
       ELSE /\ do_write_wakeup' = TRUE
            /\ UNCHANGED oops
    /\ xm' = [xm EXCEPT !.pc = "bit"]
    /\ UNCHANGED << muxnetdevs, param, regvars, tty, disc_data, dev, lock, rxvars, running,
                    queue_stopped, xhead, xleft, stats, envvars, wk, adm, hup,
                    txh, codec >>

\* slc_encaps: actual = tty->ops->write(tty, xbuff, strlen(xbuff))
slc_encaps_write ==
    /\ oops = ""
    /\ xm.pc = "bit"
    /\ IF ~tty
       THEN /\ oops' = "slc_encaps: sl->tty is NULL"
            /\ UNCHANGED << xm, sent, txh >>
       ELSE \E actual \in Accepts(Len(xbuff[xm.dev])) :
               /\ sent' = [sent EXCEPT ![xm.dev] = SubSeq(xbuff[xm.dev], 1, actual)]
               /\ txh' = [txh EXCEPT !.drained[xm.dev] =
                              @ + Drained(xm.dev, << >>, sent'[xm.dev])]
               /\ xm' = [xm EXCEPT !.pc = "written", !.actual = actual]
               /\ UNCHANGED oops
    /\ UNCHANGED << muxnetdevs, param, regvars, chanvars, rxvars, txvars, stats, envvars,
                    wk, adm, hup, codec >>

\* slc_encaps: sl_dev->xleft = strlen(sl_dev->xbuff) - actual
slc_encaps_xleft ==
    /\ oops = ""
    /\ xm.pc = "written"
    /\ xleft' = [xleft EXCEPT ![xm.dev] = Len(xbuff[xm.dev]) - xm.actual]
    /\ xm' = [xm EXCEPT !.pc = "xleft"]
    /\ UNCHANGED << muxnetdevs, param, regvars, chanvars, rxvars, running, queue_stopped,
                    xbuff, xhead, stats, oops, envvars, wk, adm, hup, txenv,
                    codec >>

\* slc_encaps: sl_dev->xhead = sl_dev->xbuff + actual and tx_bytes, then
\* the spin_unlock of slc_xmit, kfree_skb and return NETDEV_TX_OK
slc_encaps_xhead ==
    /\ oops = ""
    /\ xm.pc = "xleft"
    /\ xhead' = [xhead EXCEPT ![xm.dev] = xm.actual]
    /\ stats' = [stats EXCEPT ![xm.dev].tx_bytes = @ + xm.cf.can_dlc]
    /\ lock' = "free"
    /\ xm' = XmIdle
    /\ txh' = [txh EXCEPT !.ret.sent = "NETDEV_TX_OK"]
    /\ UNCHANGED << muxnetdevs, param, regvars, tty, disc_data, do_write_wakeup, dev, rxvars,
                    running, queue_stopped, xbuff, xleft, oops, envvars,
                    wk, adm, hup, sent, codec >>

\* the tty calls slcan_write_wakeup (tty_wakeup does so while
\* TTY_DO_WRITE_WAKEUP is set and the line discipline is attached)
slcan_write_wakeup ==
    /\ oops = ""
    /\ wk.pc = "idle"
    /\ do_write_wakeup
    /\ disc_data
    /\ wk' = [pc |-> "loop", i |-> 0, actual |-> 0]
    /\ UNCHANGED << muxnetdevs, param, regvars, chanvars, rxvars, txvars, stats, oops,
                    envvars, xm, adm, hup, txenv, codec >>

\* the loop of slcan_write_wakeup goes on to device i + 1, or returns
WkNext(i) ==
    IF i + 1 < muxnetdevs THEN [pc |-> "loop", i |-> i + 1, actual |-> 0]
    ELSE WkIdle

\* one turn of the loop of slcan_write_wakeup, up to tty->ops->write
slcan_write_wakeup_dev ==
    /\ oops = ""
    /\ wk.pc = "loop"
    /\ LET i == wk.i IN
       IF ~dev[i]
       THEN /\ oops' = "slcan_write_wakeup: sl->dev[i] is NULL"
            /\ UNCHANGED << wk, stats, do_write_wakeup, queue_stopped, sent, txh >>
       ELSE IF ~running[i]
       THEN /\ wk' = WkNext(i)
            /\ UNCHANGED << oops, stats, do_write_wakeup, queue_stopped, sent, txh >>
       ELSE IF xleft[i] <= 0
       THEN /\ stats' = [stats EXCEPT ![i].tx_packets = @ + 1]
            /\ do_write_wakeup' = FALSE
            /\ queue_stopped' = [queue_stopped EXCEPT ![i] = FALSE]
            /\ wk' = WkNext(i)
            /\ UNCHANGED << oops, sent, txh >>
       ELSE \E actual \in Accepts(xleft[i]) :
               /\ sent' = [sent EXCEPT ![i] = @ \o BytesAt(xbuff[i], xhead[i], actual)]
               /\ txh' = [txh EXCEPT !.drained[i] = @ + Drained(i, sent[i], sent'[i])]
               /\ wk' = [pc |-> "written", i |-> i, actual |-> actual]
               /\ UNCHANGED << oops, stats, do_write_wakeup, queue_stopped >>
    /\ UNCHANGED << muxnetdevs, param, regvars, tty, disc_data, dev, lock, rxvars, running,
                    xbuff, xhead, xleft, envvars, xm, adm, hup, codec >>

\* sl_dev->xleft -= actual; sl_dev->xhead += actual
slcan_write_wakeup_update ==
    /\ oops = ""
    /\ wk.pc = "written"
    /\ xleft' = [xleft EXCEPT ![wk.i] = @ - wk.actual]
    /\ xhead' = [xhead EXCEPT ![wk.i] = @ + wk.actual]
    /\ wk' = WkNext(wk.i)
    /\ UNCHANGED << muxnetdevs, param, regvars, chanvars, rxvars, running, queue_stopped,
                    xbuff, stats, oops, envvars, xm, adm, hup, txenv, codec >>

\* the channel followed step by step is the one in slcan_channels[0], on
\* tty 1: its device e as the registry sees it
ChannelDev(e, st) == [slcan_channels EXCEPT ![0].dev[e] = st]

\* the devices a channel points to
DevsOf(sl) == {j \in Slots : sl.dev[j] # "null"}

\* a destructor that clears the slot with the first device it frees
slc_free_netdev_early(chans, c, i) == [chans EXCEPT ![c] = NoChannel]

\* slc_free_netdev of device i of the channel in slot c: the pointer to
\* the device is cleared, and the slot with it when the channel points to
\* no device any more
slc_free_netdev(chans, c, i) ==
    IF DevsOf(chans[c]) \ {i} = {}
    THEN [chans EXCEPT ![c] = NoChannel]
    ELSE [chans EXCEPT ![c].dev[i] = "null"]

\* an slc_open without the test of sl->tty
slc_open_no_tty_test(e) ==
    /\ oops = ""
    /\ adm.pc = "idle"
    /\ dev[e]
    /\ ~running[e]
    /\ txh.nadm < MaxAdmin
    /\ txh' = [txh EXCEPT !.nadm = @ + 1,
                          !.open = IF tty THEN "0" ELSE "-ENODEV"]
    /\ running' = [running EXCEPT ![e] = TRUE]
    /\ error' = FALSE
    /\ queue_stopped' = [queue_stopped EXCEPT ![e] = FALSE]
    /\ slcan_channels' = ChannelDev(e, "up")
    /\ UNCHANGED << muxnetdevs, param, reg, ttys, opn, chanvars, rbuff, rcount, rxq, xbuff, xhead,
                    xleft, stats, oops, envvars, procvars, sent, codec >>

\* dev_open of device e and its ndo_open, slc_open
slc_open(e) ==
    /\ oops = ""
    /\ adm.pc = "idle"
    /\ dev[e]
    /\ ~running[e]
    /\ txh.nadm < MaxAdmin
    /\ txh' = [txh EXCEPT !.nadm = @ + 1,
                          !.open = IF tty THEN "0" ELSE "-ENODEV"]
    /\ IF ~tty
       THEN UNCHANGED << running, error, queue_stopped, slcan_channels >>
       ELSE /\ running' = [running EXCEPT ![e] = TRUE]
            /\ error' = FALSE
            /\ queue_stopped' = [queue_stopped EXCEPT ![e] = FALSE]
            /\ slcan_channels' = ChannelDev(e, "up")
    /\ UNCHANGED << muxnetdevs, param, reg, ttys, opn, chanvars, rbuff, rcount, rxq, xbuff, xhead,
                    xleft, stats, oops, envvars, procvars, sent, codec >>

\* dev_close of device e up to its ndo_stop: __LINK_STATE_START is cleared
dev_close(e) ==
    /\ oops = ""
    /\ adm.pc = "idle"
    /\ hup.pc = "idle"
    /\ dev[e]
    /\ running[e]
    /\ txh.nadm < MaxAdmin
    /\ txh' = [txh EXCEPT !.nadm = @ + 1]
    /\ running' = [running EXCEPT ![e] = FALSE]
    /\ adm' = [pc |-> "stop", dev |-> e]
    /\ slcan_channels' = ChannelDev(e, "reg")
    /\ UNCHANGED << muxnetdevs, param, reg, ttys, opn, chanvars, rxvars, queue_stopped, xbuff, xhead,
                    xleft, stats, oops, envvars, xm, wk, hup, sent, codec >>

\* an slc_close that clears TTY_DO_WRITE_WAKEUP without the test of sl->tty
slc_close_no_tty_test ==
    /\ oops = ""
    /\ adm.pc = "stop"
    /\ lock = "free"
    /\ do_write_wakeup' = FALSE
    /\ queue_stopped' = [queue_stopped EXCEPT ![adm.dev] = TRUE]
    /\ rcount' \in {0} \cup (IF rxp # << >> THEN {rcount} ELSE {})
    /\ xleft' = [xleft EXCEPT ![adm.dev] = 0]
    /\ adm' = [adm EXCEPT !.pc = "idle"]
    /\ UNCHANGED << muxnetdevs, param, regvars, tty, disc_data, dev, lock, rbuff, error, rxq,
                    running, xbuff, xhead, stats, oops, envvars, xm, wk, hup,
                    txenv, codec >>

\* slc_close, from spin_lock_bh to spin_unlock_bh.  Its store to rcount
\* races with the rcount++ of slcan_unesc, which takes no lock and may
\* write its own count over the 0.
slc_close ==
    /\ oops = ""
    /\ adm.pc = "stop"
    /\ lock = "free"
    /\ do_write_wakeup' = (IF tty THEN FALSE ELSE do_write_wakeup)
    /\ queue_stopped' = [queue_stopped EXCEPT ![adm.dev] = TRUE]
    /\ rcount' \in {0} \cup (IF rxp # << >> THEN {rcount} ELSE {})
    /\ xleft' = [xleft EXCEPT ![adm.dev] = 0]
    /\ adm' = [adm EXCEPT !.pc = "idle"]
    /\ UNCHANGED << muxnetdevs, param, regvars, tty, disc_data, dev, lock, rbuff, error, rxq,
                    running, xbuff, xhead, stats, oops, envvars, xm, wk, hup,
                    txenv, codec >>

\* slcan_close (also the hangup) up to its loop.  The tty calls it when no
\* other call into the line discipline is running; it takes neither
\* sl->lock nor, before unregister_netdev, the rtnl lock of dev_close.
slcan_close ==
    /\ oops = ""
    /\ hup.pc = "idle"
    /\ disc_data
    /\ tty
    /\ wk.pc = "idle"
    /\ rxp = << >>
    /\ disc_data' = FALSE
    /\ tty' = FALSE
    /\ ttys' = [ttys EXCEPT ![1] = -1]
    /\ slcan_channels' = [slcan_channels EXCEPT ![0].tty = 0,
                                                ![0].closing = TRUE]
    /\ hup' = [pc |-> "unreg", i |-> 0]
    /\ UNCHANGED << muxnetdevs, param, reg, opn, do_write_wakeup, dev, lock, rxvars, txvars,
                    stats, oops, envvars, xm, wk, adm, txenv, codec >>

\* unregister_netdev(sl->dev[i]) in slcan_close: the device is closed if it
\* is up (slc_close, once no slc_xmit of it is running) and then freed
\* (slc_free_netdev)
unregister_netdev ==
    /\ oops = ""
    /\ hup.pc = "unreg"
    /\ adm.pc = "idle"
    /\ lock = "free"
    /\ LET i == hup.i IN
       /\ IF running[i]
          THEN /\ running' = [running EXCEPT ![i] = FALSE]
               /\ queue_stopped' = [queue_stopped EXCEPT ![i] = TRUE]
               /\ rcount' = 0
               /\ xleft' = [xleft EXCEPT ![i] = 0]
          ELSE UNCHANGED << running, queue_stopped, rcount, xleft >>
       /\ dev' = [dev EXCEPT ![i] = FALSE]
       /\ slcan_channels' = slc_free_netdev(slcan_channels, 0, i)
       /\ hup' = IF i + 1 < muxnetdevs THEN [pc |-> "unreg", i |-> i + 1]
                 ELSE [pc |-> "done", i |-> 0]
    /\ UNCHANGED << muxnetdevs, param, reg, ttys, opn, tty, disc_data, do_write_wakeup, lock, rbuff,
                    error, rxq, xbuff, xhead, stats, oops, envvars, xm, wk,
                    adm, txenv, codec >>

XmitSteps ==
    \/ slc_encaps_set_bit
    \/ slc_encaps_write
    \/ slc_encaps_xleft
    \/ slc_encaps_xhead

WakeupSteps ==
    \/ slcan_write_wakeup_dev
    \/ slcan_write_wakeup_update

Calls ==
    \/ \E e \in Devs, cf \in TxFrames : slc_xmit(e, cf)
    \/ slcan_write_wakeup
    \/ \E e \in Devs : slc_open(e)
    \/ \E e \in Devs : dev_close(e)
    \/ slcan_close

NextTx == Calls \/ XmitSteps \/ WakeupSteps \/ slc_close \/ unregister_netdev

SpecTx == InitTx /\ [][NextTx]_vars

\* no call into the driver is in progress
Quiet ==
    /\ xm.pc = "idle"
    /\ wk.pc = "idle"
    /\ adm.pc = "idle"
    /\ hup.pc # "unreg"

\* the same steps when every call runs to its end before the next begins
NextTxSerial ==
    \/ Quiet /\ \E e \in Devs, cf \in TxFrames : slc_xmit(e, cf)
    \/ Quiet /\ slcan_write_wakeup
    \/ Quiet /\ \E e \in Devs : slc_open(e)
    \/ Quiet /\ \E e \in Devs : dev_close(e)
    \/ Quiet /\ slcan_close
    \/ XmitSteps
    \/ WakeupSteps
    \/ slc_close
    \/ unregister_netdev

SpecTxSerial == InitTx /\ [][NextTxSerial]_vars

\* a tty->ops->write of slcan_write_wakeup that accepts at least one byte
WakeupAccepts == slcan_write_wakeup_dev /\ wk'.pc = "written" /\ wk'.actual > 0

\* every call that has begun goes on to its end; the tty notifies while
\* TTY_DO_WRITE_WAKEUP is set, and of the writes it is offered again and
\* again it accepts a byte
SpecTxFair ==
    /\ SpecTxSerial
    /\ WF_vars(XmitSteps)
    /\ WF_vars(WakeupSteps)
    /\ WF_vars(slc_close)
    /\ WF_vars(unregister_netdev)
    /\ WF_vars(Quiet /\ slcan_write_wakeup)
    /\ SF_vars(WakeupAccepts)

\* the transmit path with dev_open and dev_close at any moment, the tty
\* staying open and notifying between the calls of slc_xmit
NextTxAdmin ==
    \/ wk.pc = "idle" /\ \E e \in Devs, cf \in TxFrames : slc_xmit(e, cf)
    \/ xm.pc = "idle" /\ slcan_write_wakeup
    \/ \E e \in Devs : slc_open(e)
    \/ \E e \in Devs : dev_close(e)
    \/ XmitSteps
    \/ WakeupSteps
    \/ slc_close

SpecTxAdmin == InitTx /\ [][NextTxAdmin]_vars

\* the receive path with dev_open and dev_close of its net devices
\* the blocks of the receive runs with dev_open and dev_close
AdminBlocks ==
    { slc_encaps_buf(RxIdFrame, 0, muxnetdevs),
      << 116, 49, 50 >>,                    \* "t12"
      << CR >>,
      << 49, 116 >> \o Run(53, SLC_MTU) }   \* "1t555..." two too many

AdminChunks ==
    { [i \in 1..Len(b) |-> [ch |-> b[i], fp |-> FALSE]] : b \in AdminBlocks }
    \cup { << [ch |-> 53, fp |-> TRUE] >> }

slcan_receive_buf_admin == ReceiveBuf(AdminChunks, MaxBlocks)

NextRxAdmin ==
    \/ slcan_receive_buf_admin
    \/ slcan_receive_buf_char
    \/ \E e \in Devs : slc_open(e)
    \/ \E e \in Devs : dev_close(e)
    \/ slc_close

SpecRxAdmin == InitRx /\ [][NextRxAdmin]_vars

(***************************************************************************)
(* Claims about the codec (checked under SpecCodec)                        *)
(***************************************************************************)
CodecWire == xbuff[codec.dst]
CodecFedAll == codec.pos >= 1 /\ codec.pos = Len(CodecWire)

\* the frame F as a receiver must see it: its id, flags and dlc, its first
\* dlc data bytes, and zeros after them
FirstDlcBytes(cf) ==
    [can_id  |-> cf.can_id,
     can_dlc |-> cf.can_dlc,
     data    |-> [i \in 0..7 |-> IF i < cf.can_dlc THEN cf.data[i] ELSE 0]]

HexTable == << 48, 49, 50, 51, 52, 53, 54, 55, 56, 57, 65, 66, 67, 68, 69, 70 >>

\* v in exactly w uppercase hexadecimal digits, most significant first
FixedHex(v, w) == [k \in 1..w |-> HexTable[((v \div (16 ^ (w - k))) % 16) + 1]]

RECURSIVE PayloadHex(_, _)
\* the first n data bytes, two uppercase hexadecimal digits each
PayloadHex(data, n) ==
    IF n = 0 THEN << >>
    ELSE PayloadHex(data, n - 1) \o FixedHex(data[n - 1], 2)

\* the wire format of section 6 of the specification
WireFormat(cf, d, mux) ==
    (IF mux > 1 THEN << 48 + d >> ELSE << >>)
    \o << IF cf.can_id.eff THEN (IF cf.can_id.rtr THEN 82 ELSE 84)
                           ELSE (IF cf.can_id.rtr THEN 114 ELSE 116) >>
    \o FixedHex(cf.can_id.id, IF cf.can_id.eff THEN 8 ELSE 3)
    \o << 48 + cf.can_dlc >>
    \o PayloadHex(cf.data, cf.can_dlc)
    \o << CR >>

\* C2 (wire format): the transmit buffer holds [address digit iff
\* mux_count > 1] + type character + id in 3 or 8 uppercase hex digits +
\* one dlc digit + dlc pairs of uppercase hex digits + CR; the frame of
\* scenario C gives "T12ABCDEF2AA55\r" and that of scenario E, sent to
\* address 1 of 2, gives "1t1230\r".
C2_WireFormat ==
    codec.pos >= 0 =>
        /\ CodecWire = WireFormat(codec.cf, codec.dst, muxnetdevs)
        /\ (codec.cf = ScenarioC /\ muxnetdevs = 1) =>
               CodecWire = << 84, 49, 50, 65, 66, 67, 68, 69, 70, 50,
                              65, 65, 53, 53, 13 >>
        /\ (codec.cf = ScenarioE /\ muxnetdevs = 2 /\ codec.dst = 1) =>
               CodecWire = << 49, 116, 49, 50, 51, 48, 13 >>

\* slc_encaps has just encoded the frame of scenario C
C2_Witness ==
    /\ codec.pos = 0
    /\ codec.cf = ScenarioC
    /\ muxnetdevs = 1
    /\ Len(CodecWire) = 15

(***************************************************************************)
(* Claims about the transmit path and the locking                          *)
(***************************************************************************)
\* C3: a packet is counted as transmitted once, after its pending count has
\* reached zero: the tx_packets of a net device never exceed the number of
\* its frames that have gone to the tty completely, so a notification that
\* finds an idle net device does not count a packet for it.
\* (SpecTxSerial: no two calls overlap.)
C3_CountedOnce ==
    \A e \in Devs : stats[e].tx_packets <= txh.drained[e]

\* slc_xmit or slcan_write_wakeup is between a tty write for e and the
\* stores of xleft and xhead that follow it
MidUpdate(e) ==
    \/ xm.pc \in {"bit", "written", "xleft"} /\ xm.dev = e
    \/ wk.pc = "written" /\ wk.i = e

IsPrefix(s, t) == Len(s) <= Len(t) /\ s = SubSeq(t, 1, Len(s))

\* C4: partial writes resume without loss, duplication or reordering: the
\* bytes the tty has accepted for the frame of a running net device are the
\* first bytes of xbuff in order, and while bytes are pending xhead is the
\* number accepted and xhead + xleft the length of the frame.
C4_Resumption ==
    \A e \in Devs :
       running[e] /\ ~MidUpdate(e) =>
          /\ IsPrefix(sent[e], xbuff[e])
          /\ xleft[e] > 0 =>
                xhead[e] = Len(sent[e]) /\ xhead[e] + xleft[e] = Len(xbuff[e])

\* net device e holds a frame that has not gone to the tty completely
Pending(e) ==
    /\ e \in Devs
    /\ running[e]
    /\ Quiet
    /\ queue_stopped[e]
    /\ xleft[e] > 0

\* the frame of e is written and its queue runs again, or e was closed or
\* the tty hung up
Resumed(e) ==
    \/ sent[e] = xbuff[e] /\ ~queue_stopped[e]
    \/ ~running[e]
    \/ ~tty

\* C5: when the tty notifies while a notification is requested and goes on
\* accepting bytes, every frame slc_xmit has accepted is written completely
\* and the queue of its net device is woken, whatever the other net devices
\* of the channel do.
C5_Liveness == \A e \in {0, 1} : Pending(e) ~> Resumed(e)

\* C6: slc_encaps and slcan_write_wakeup exclude each other: the
\* notification handler is never past a write from the xhead and xleft of a
\* net device whose slc_encaps is between its own write and its stores of
\* xleft and xhead.
C6_TxMutex ==
    ~ ( /\ xm.pc \in {"written", "xleft"}
        /\ wk.pc = "written"
        /\ wk.i = xm.dev )

\* C7: the receive buffer, its count, the error flag and the dev[] slots are
\* only touched under sl->lock, so that during one call of
\* slcan_receive_buf nothing but its own loop changes them.
C7_RxSerialized ==
    [][ ( /\ rxp # << >>
          /\ << rbuff, rcount, error, dev >>' # << rbuff, rcount, error, dev >> )
        => rxp' = Tail(rxp) ]_vars

\* C8: slc_xmit never sets the wakeup bit of, or writes to, a NULL sl->tty,
\* however slcan_close interleaves with it.
C8_NoNullTty == oops # "slc_encaps: sl->tty is NULL"

\* the step is a call of slc_xmit
XmitCallStep == txh'.nxmit = txh.nxmit + 1

\* C19 as claimed: the caller of slc_xmit learns of the drop: what slc_xmit
\* returns for a frame dropped on a net device that is down differs from
\* what it returns for a frame it accepted.
C19_DropReported ==
    (txh.ret.down # "none" /\ txh.ret.sent # "none")
    => txh.ret.down # txh.ret.sent

\* C19, amended: a frame submitted while its net device is not running is
\* dropped with a warning in the log; slc_xmit returns NETDEV_TX_OK as for
\* an accepted frame; nothing goes to the tty and xbuff, xhead, xleft, the
\* queue state and the counters stay as they are.
C19_DownDropped ==
    [][ XmitCallStep /\ ~running[txh'.call.dev]
        => /\ txh'.call.kind = "down"
           /\ txh'.warned
           /\ txh'.ret.down = "NETDEV_TX_OK"
           /\ txh'.ret.sent \in {"none", "NETDEV_TX_OK"}
           /\ UNCHANGED << xm, lock, do_write_wakeup, sent, xbuff, xhead,
                           xleft, queue_stopped, stats >> ]_vars

\* a frame was dropped on a net device that is down, another was accepted
C19_Witness ==
    /\ txh.call.kind = "down"
    /\ ~running[txh.call.dev]
    /\ txh.warned
    /\ txh.ret.down = "NETDEV_TX_OK"
    /\ txh.ret.sent = "NETDEV_TX_OK"

(***************************************************************************)
(* Claims about the decoder (checked under SpecDecode)                     *)
(***************************************************************************)
HexChars == (48..57) \cup (65..70) \cup (97..102)

\* the fields of a received line l, as the wire format lays them out
LineOff(l) == IF l # << >> /\ l[1] \in 48..57 THEN 1 ELSE 0
LineType(l) == IF LineOff(l) < Len(l) THEN l[LineOff(l) + 1] ELSE NUL
LineIdLen(l) == IF LineType(l) \in {116, 114} THEN 3 ELSE 8
LineDlcAt(l) == LineOff(l) + LineIdLen(l) + 2
LineDlc(l) == IF LineDlcAt(l) <= Len(l) THEN l[LineDlcAt(l)] - 48 ELSE -1
LineNeeds(l) == LineDlcAt(l) + 2 * LineDlc(l)

\* the next step takes the terminator of the line received so far
AtTerminator ==
    /\ rxp # << >>
    /\ ~Head(rxp).fp
    /\ Head(rxp).ch \in {CR, BEL}

\* l has a character it received that the wire format does not allow:
\* the type, the dlc, an id digit or a data digit
Malformed(l) ==
    \/ LineType(l) \notin {116, 84, 114, 82}
    \/ LineDlcAt(l) <= Len(l) /\ LineDlc(l) \notin 0..8
    \/ \E k \in (LineOff(l) + 2) .. (LineDlcAt(l) - 1) :
          k <= Len(l) /\ l[k] \notin HexChars
    \/ /\ LineDlc(l) \in 0..8
       /\ \E k \in (LineDlcAt(l) + 1) .. LineNeeds(l) :
             k <= Len(l) /\ l[k] \notin HexChars

\* C11: a malformed line is dropped silently: at its terminator no frame is
\* delivered to any net device and no counter of any net device changes.
C11_MalformedDropped ==
    [][ AtTerminator /\ Malformed(hist.cur.line)
        => rxq' = rxq /\ stats' = stats ]_vars

\* l holds fewer characters than its own type and dlc require
TooShort(l) ==
    /\ LineType(l) \in {116, 84, 114, 82}
    /\ \/ LineDlcAt(l) > Len(l)
       \/ LineDlc(l) \in 0..8 /\ Len(l) < LineNeeds(l)

\* C12: a line shorter than its type and dlc require delivers no frame at
\* its terminator, whatever earlier lines left in rbuff beyond rcount.
C12_ShortLineDropped ==
    [][ AtTerminator /\ TooShort(hist.cur.line) => rxq' = rxq ]_vars

\* the step delivers a frame
Delivers == Len(rxq') = Len(rxq) + 1

\* C13: the kind of a delivered frame comes from the type character alone:
\* it is extended iff the type was T or R and a remote request iff the type
\* was r or R, whatever the id digits are.
C13_KindFromType ==
    [][ AtTerminator /\ Delivers
        => LET f == rxq'[Len(rxq')].cf
               t == LineType(hist.cur.line)
           IN  /\ f.can_id.eff = (t \in {84, 82})
               /\ f.can_id.rtr = (t \in {114, 82}) ]_vars

\* C14: every delivered frame has a dlc in 0..8 and an id that fits its
\* kind: at most 0x7FF when standard, at most 0x1FFFFFFF when extended.
C14_FrameInvariant ==
    \A k \in 1..Len(rxq) :
       LET f == rxq[k].cf
       IN  /\ f.can_dlc \in 0..8
           /\ f.can_id.id <= (IF f.can_id.eff THEN CAN_EFF_MASK ELSE CAN_SFF_MASK)

\* the net device a line is addressed to: its leading digit when the
\* channel multiplexes, else 0
LineDest(l) ==
    IF muxnetdevs > 1 /\ LineOff(l) = 1 THEN l[1] - 48 ELSE 0

\* C15: a decoded frame goes to exactly one net device, the one its leading
\* address digit names (0 without one); rx_packets (+1) and rx_bytes (+dlc)
\* of that device alone change; a line that delivers nothing, as one
\* addressed to a net device the channel does not have, changes no counter.
C15_Routing ==
    [][ AtTerminator
        => LET d == LineDest(hist.cur.line)
           IN  IF Delivers
               THEN /\ dev[d]
                    /\ rxq'[Len(rxq')].dev = d
                    /\ SubSeq(rxq', 1, Len(rxq)) = rxq
                    /\ stats' = [stats EXCEPT
                                   ![d].rx_packets = @ + 1,
                                   ![d].rx_bytes = @ + rxq'[Len(rxq')].cf.can_dlc]
               ELSE rxq' = rxq /\ stats' = stats ]_vars

\* "1t1230" has been delivered to net device 1 of two, and "5t1230" dropped
C15_Witness ==
    /\ muxnetdevs = 2
    /\ hist.last = "term"
    /\ Len(hist.done) = 2
    /\ hist.done[1].line = << 49, 116, 49, 50, 51, 48 >>
    /\ hist.done[2].line = << 53, 116, 49, 50, 51, 48 >>
    /\ rxq = << [dev |-> 1, cf |-> MkFrame(291, FALSE, FALSE, 0, NoData)] >>
    /\ stats[1].rx_packets = 1
    /\ stats[0] = ZeroStats

\* C16: without multiplexing (muxnetdevs = 1) a leading digit is no
\* address: a line that begins with a decimal digit has no type character
\* and delivers no frame.
C16_NoAddressWithoutMux ==
    [][ /\ AtTerminator
        /\ muxnetdevs = 1
        /\ LineOff(hist.cur.line) = 1
        => rxq' = rxq ]_vars

(***************************************************************************)
(* Claims about the receive path (checked under SpecRx)                    *)
(***************************************************************************)
\* C17: rcount stays between 0 and SLC_MTU and rbuff is never written at
\* SLC_MTU or beyond, whatever characters, line errors, dev_open and
\* dev_close come.
C17_RcountInRange ==
    /\ rcount \in 0..SLC_MTU
    /\ DOMAIN rbuff = 0 .. (SLC_MTU - 1)

\* rbuff is full and in overflow, a net device having been closed
C17_Witness ==
    /\ rcount = SLC_MTU
    /\ error
    /\ txh.nadm > 0
    /\ \E e \in Devs : ~running[e]

LastDone == hist.done[Len(hist.done)]

\* the step is one turn of the loop of slcan_receive_buf
CharStep == rxp # << >> /\ rxp' = Tail(rxp)

Overflowed(l) == ~l.lerr /\ Len(l.line) > SLC_MTU

C10_IdempotentReset ==
    hist.last = "term" => (rcount = 0 /\ ~error)

\* a BEL has just ended a line that had a character in error
C10_Witness ==
    /\ hist.last = "term"
    /\ LastDone.lerr
    /\ rxp = << >>
    /\ rcount = 0
    /\ stats[0].rx_errors = 1


(***************************************************************************)
(* The registry: slcan_channels[] under slcan_open and slcan_close of      *)
(* several ttys.  Both run to their end here: slcan_open holds the rtnl    *)
(* lock from slc_sync to its return, and slcan_close is over when its last *)
(* unregister_netdev has run slc_free_netdev.                              *)
(***************************************************************************)
\* no tty has the line discipline: every slot is NULL
NoChannels ==
    /\ tty = FALSE
    /\ disc_data = FALSE
    /\ do_write_wakeup = FALSE
    /\ dev = [i \in Slots |-> FALSE]
    /\ lock = "free"
    /\ rbuff = [i \in 0 .. (SLC_MTU - 1) |-> NUL]
    /\ rcount = 0
    /\ error = FALSE
    /\ running = [i \in Slots |-> FALSE]
    /\ queue_stopped = [i \in Slots |-> FALSE]
    /\ xbuff = [i \in Slots |-> << >>]
    /\ xhead = [i \in Slots |-> 0]
    /\ xleft = [i \in Slots |-> 0]
    /\ stats = [i \in Slots |-> ZeroStats]
    /\ rxq = << >>
    /\ oops = ""
    /\ rxp = << >>
    /\ hist = [calls |-> 0, last |-> "none", cur |-> NewLine(0, 0),
               done |-> << >>]
    /\ xm = XmIdle
    /\ wk = WkIdle
    /\ adm = [pc |-> "idle", dev |-> 0]
    /\ hup = [pc |-> "done", i |-> 0]
    /\ sent = [i \in Slots |-> << >>]
    /\ txh = [nxmit |-> 0, nadm |-> 0, drained |-> [i \in Slots |-> 0],
              call |-> [dev |-> 0, kind |-> "none"],
              ret |-> [down |-> "none", notty |-> "none", sent |-> "none"],
              warned |-> FALSE, open |-> "none"]
    /\ codec = [cf |-> RxIdFrame, dst |-> 0, pos |-> -1]
    /\ slcan_channels = [c \in Chans |-> NoChannel]
    /\ ttys = [t \in Ttys |-> -1]
    /\ opn = NoOpen
    /\ reg = NoReg

InitOpen ==
    /\ muxnetdevs \in 1 .. 2
    /\ param = Loaded(muxnetdevs)
    /\ NoChannels

\* the slots that hold a channel, and whether all of them do
Occupied(chans) == {c \in Chans : chans[c].used}
Full(chans) == Occupied(chans) = Chans

\* slc_sync: the scan ends at the first NULL slot; for a channel without
\* tty it looks muxnetdevs times at sl->dev[i], i the index of the slot,
\* and closes that device if it is up
slc_sync(chans) ==
    LET end == IF Full(chans) THEN maxchannel
               ELSE CHOOSE i \in Chans :
                        /\ ~chans[i].used
                        /\ \A k \in 0 .. (i - 1) : chans[k].used
    IN  [i \in Chans |->
            IF /\ i < end
               /\ chans[i].tty = 0
               /\ chans[i].dev[i] = "up"
            THEN [chans[i] EXCEPT !.dev[i] = "reg"]
            ELSE chans[i]]


\* a scan that stops at the last slot whether or not it is NULL
FirstFreeUnchecked(chans) ==
    IF Full(chans) THEN maxchannel - 1
    ELSE CHOOSE i \in Chans :
             /\ ~chans[i].used
             /\ \A k \in 0 .. (i - 1) : chans[k].used

\* the scan of slc_alloc: the first NULL slot, maxchannel if there is none
FirstFree(chans) ==
    IF Full(chans) THEN maxchannel
    ELSE CHOOSE i \in Chans :
             /\ ~chans[i].used
             /\ \A k \in 0 .. (i - 1) : chans[k].used

\* slc_alloc.  fail names the allocation that fails, at its device j:
\* "kzalloc", "alloc_netdev" or none of the two.  The result is the slot
\* taken (maxchannel for NULL), the array after it and the number of
\* alloc_netdev calls that returned a device.
slc_alloc(chans, fail, j) ==
    LET i == FirstFree(chans) IN
    IF i >= maxchannel
    THEN [slot |-> maxchannel, chans |-> chans, allocd |-> 0]
    ELSE IF fail = "kzalloc"
    THEN [slot |-> maxchannel, chans |-> chans, allocd |-> 0]
    ELSE IF fail = "alloc_netdev"
    THEN [slot |-> maxchannel, chans |-> chans, allocd |-> j]
    ELSE [slot |-> i,
          chans |-> [chans EXCEPT ![i] =
                        [used |-> TRUE, tty |-> 0, inuse |-> FALSE,
                         closing |-> FALSE,
                         dev |-> [k \in Slots |->
                                     IF k < muxnetdevs THEN "alloc"
                                     ELSE "null"]]],
          allocd |-> muxnetdevs]

\* a device pointer of a channel, IFF_UP of the device left aside
DevPointer(st) == IF st = "up" THEN "reg" ELSE st

\* the slots hold the same channels, with the same tty and the same
\* devices, registered or not as before
SameChannels(a, b) ==
    \A c \in Chans :
        \/ a[c] = b[c]
        \/ /\ a[c].used = b[c].used
           /\ a[c].tty = b[c].tty
           /\ a[c].inuse = b[c].inuse
           /\ \A j \in Slots :
                 DevPointer(a[c].dev[j]) = DevPointer(b[c].dev[j])

\* a test that never finds the tty connected
AlreadyConnectedNever(t) == FALSE

\* tty->disc_data points to a channel (sl && sl->magic == SLCAN_MAGIC)
AlreadyConnected(t) == ttys[t] # -1

\* the body of slcan_open for tty t: its return value, slcan_channels[] and
\* the disc_data of the ttys after it, and the devices it allocated and
\* registered.  cap: the caller has CAP_NET_ADMIN; write: the tty has a
\* write operation; fail and j: the call that fails, "kzalloc",
\* "alloc_netdev" or "register_netdevice" of device j, or "none".
OpenResult(t, cap, write, fail, j) ==
    LET synced == slc_sync(slcan_channels)
        al     == slc_alloc(synced, fail, j)
        i      == al.slot
    IN
    IF ~cap
    THEN [ret |-> "-EPERM", chans |-> slcan_channels, ttys |-> ttys,
          allocd |-> 0, registered |-> 0]
    ELSE IF ~write
    THEN [ret |-> "-EOPNOTSUPP", chans |-> slcan_channels, ttys |-> ttys,
          allocd |-> 0, registered |-> 0]
    ELSE IF AlreadyConnected(t)
    THEN [ret |-> "-EEXIST", chans |-> synced, ttys |-> ttys,
          allocd |-> 0, registered |-> 0]
    ELSE IF i >= maxchannel
    THEN [ret |-> "-ENFILE", chans |-> synced, ttys |-> ttys,
          allocd |-> al.allocd, registered |-> 0]
    ELSE IF fail = "register_netdevice"
    THEN [ret |-> "-ENOMEM",
          chans |-> [al.chans EXCEPT ![i].dev =
                        [k \in Slots |->
                            IF k < j THEN "reg" ELSE al.chans[i].dev[k]]],
          ttys |-> ttys, allocd |-> al.allocd, registered |-> j]
    ELSE [ret |-> "0",
          chans |-> [al.chans EXCEPT ![i].tty = t, ![i].inuse = TRUE,
                                     ![i].dev =
                        [k \in Slots |->
                            IF k < muxnetdevs THEN "reg" ELSE "null"]],
          ttys |-> [ttys EXCEPT ![t] = i],
          allocd |-> al.allocd, registered |-> muxnetdevs]

\* slcan_open of tty t, from its entry to its return
slcan_open(t, cap, write, fail, j) ==
    /\ \E r \in {OpenResult(t, cap, write, fail, j)} :
       /\ slcan_channels' = r.chans
       /\ ttys' = r.ttys
       /\ opn' = [ret |-> r.ret, allocd |-> r.allocd,
                  registered |-> r.registered,
                  full |-> Full(slcan_channels),
                  alloc |-> cap /\ write /\ ttys[t] = -1,
                  bound |-> ttys[t] # -1,
                  kept |-> /\ r.ttys = ttys
                           /\ SameChannels(r.chans, slcan_channels)]
    /\ UNCHANGED << muxnetdevs, param, reg, chanvars, rxvars, txvars, stats, oops,
                    envvars, procvars, txenv, codec >>

\* slcan_close of tty t up to its loop: the two pointers are cleared
slcan_close_tty(t) ==
    /\ ttys[t] # -1
    /\ slcan_channels' = [slcan_channels EXCEPT ![ttys[t]].tty = 0,
                                                ![ttys[t]].closing = TRUE]
    /\ ttys' = [ttys EXCEPT ![t] = -1]
    /\ UNCHANGED << muxnetdevs, param, reg, opn, chanvars, rxvars, txvars, stats, oops,
                    envvars, procvars, txenv, codec >>

\* the next unregister_netdev of the slcan_close of the channel in slot c:
\* the device is closed, unregistered and freed by slc_free_netdev, which
\* clears the slot after the last device
unregister_netdev_chan(c) ==
    /\ slcan_channels[c].used
    /\ slcan_channels[c].closing
    /\ LET sl == slcan_channels[c]
           i  == CHOOSE k \in Slots :
                     /\ sl.dev[k] # "null"
                     /\ \A m \in 0 .. (k - 1) : sl.dev[m] = "null"
       IN slcan_channels' = slc_free_netdev(slcan_channels, c, i)
    /\ UNCHANGED << muxnetdevs, param, reg, ttys, opn, chanvars, rxvars, txvars, stats,
                    oops, envvars, procvars, txenv, codec >>

\* the callers of slcan_open and the allocations that fail under them
OpenInputs ==
    {[cap |-> FALSE, write |-> w, fail |-> "none", j |-> 0] :
        w \in BOOLEAN}
    \cup {[cap |-> TRUE, write |-> FALSE, fail |-> "none", j |-> 0]}
    \cup {[cap |-> TRUE, write |-> TRUE, fail |-> f, j |-> 0] :
              f \in {"none", "kzalloc"}}
    \cup {[cap |-> TRUE, write |-> TRUE, fail |-> f, j |-> k] :
              f \in {"alloc_netdev", "register_netdevice"},
              k \in 0 .. (muxnetdevs - 1)}

NextOpen ==
    \/ \E t \in Ttys, in \in OpenInputs :
          slcan_open(t, in.cap, in.write, in.fail, in.j)
    \/ \E t \in Ttys : slcan_close_tty(t)
    \/ \E c \in Chans : unregister_netdev_chan(c)

SpecOpen == InitOpen /\ [][NextOpen]_vars

\* C20: slcan_open with all maxchannel slots of slcan_channels[] occupied
\* fails, and with -ENFILE when the caller has CAP_NET_ADMIN and the tty
\* can write and has no channel yet (the three tests slcan_open makes
\* before slc_alloc); it binds no channel to the tty, allocates and
\* registers no net device and leaves every slot and every channel as it
\* was.  At no time do more than maxchannel slots hold a channel.
C20_Exhaustion ==
    /\ Cardinality(Occupied(slcan_channels)) <= maxchannel
    /\ opn.full =>
          /\ opn.ret \in {"-EPERM", "-EOPNOTSUPP", "-EEXIST", "-ENFILE"}
          /\ opn.alloc => opn.ret = "-ENFILE"
          /\ opn.allocd = 0
          /\ opn.registered = 0
          /\ opn.kept

\* a tty without channel was opened when every slot was taken
C20_Witness ==
    /\ opn.full
    /\ opn.alloc
    /\ opn.ret = "-ENFILE"
    /\ Full(slcan_channels)
    /\ \E t \in Ttys : ttys[t] # -1


\* C21: slcan_open of a tty that has a channel fails (with -EEXIST once the
\* caller has passed the tests for CAP_NET_ADMIN and tty->ops->write),
\* takes no slot and leaves the disc_data of every tty, the channel and its
\* devices as they were.  So every tty with a channel points to a slot that
\* holds a channel of that tty, and no two slots hold a channel of one tty.
C21_ReopenRejected ==
    /\ opn.bound =>
          /\ opn.ret \in {"-EPERM", "-EOPNOTSUPP", "-EEXIST"}
          /\ opn.allocd = 0
          /\ opn.registered = 0
          /\ opn.kept
    /\ \A t \in Ttys :
          ttys[t] # -1 =>
              /\ slcan_channels[ttys[t]].used
              /\ slcan_channels[ttys[t]].tty = t
    /\ \A c \in Chans, d \in Chans :
          (/\ slcan_channels[c].used
           /\ slcan_channels[d].used
           /\ slcan_channels[c].tty # 0
           /\ slcan_channels[c].tty = slcan_channels[d].tty) => c = d

\* a capable caller opened a tty that had a channel and still has it
C21_Witness ==
    /\ opn.bound
    /\ opn.ret = "-EEXIST"
    /\ \E t \in Ttys : ttys[t] # -1
    /\ ~Full(slcan_channels)


\* C22: a slot of slcan_channels[] that holds a channel is cleared by the
\* step that frees the last device the channel points to, and by no other
\* step: a channel in a slot always points to a device, and the slot just
\* cleared is one slc_alloc can take again.
C22_Refcount ==
    /\ [](\A c \in Chans :
            slcan_channels[c].used => DevsOf(slcan_channels[c]) # {})
    /\ [][\A c \in Chans :
            (slcan_channels[c].used /\ ~slcan_channels'[c].used) =>
                /\ Cardinality(DevsOf(slcan_channels[c])) = 1
                /\ FirstFree(slcan_channels') <= c]_vars

\* the channel of slot 0 is gone with its last device, the one of slot 1
\* has lost its first device and is still there
C22_Witness ==
    /\ ~slcan_channels[0].used
    /\ slcan_channels[1].used
    /\ slcan_channels[1].closing
    /\ muxnetdevs = 2
    /\ DevsOf(slcan_channels[1]) = {1}


\* the devices of a channel that are registered
RegisteredOf(sl) == {j \in Slots : sl.dev[j] \in {"reg", "up"}}

\* C23: when slcan_open has returned, with 0 or with an error, the channel
\* it allocated has all its muxnetdevs devices 0..muxnetdevs-1 registered
\* or none of them: the call registered muxnetdevs devices or none, and
\* every channel that slcan_close has not begun to take down has all of
\* its devices registered or none.
C23_AllOrNone ==
    /\ opn.registered \in {0, muxnetdevs}
    /\ \A c \in Chans :
          (slcan_channels[c].used /\ ~slcan_channels[c].closing) =>
              RegisteredOf(slcan_channels[c]) \in {{}, Devs}


\* unsigned char xbuff[SLC_MTU] of struct slcan_dev
XbuffSize == SLC_MTU

\* C24: for every frame with can_dlc in 0..8, every address and every
\* muxnetdevs in 1..10, the string slc_encaps builds, with its address
\* digit, its CR and its closing NUL, fits xbuff, which is as long as
\* rbuff.
C24_EncodedFits ==
    /\ XbuffSize = Cardinality(DOMAIN rbuff)
    /\ \A e \in Slots : Len(xbuff[e]) + 1 <= XbuffSize

\* the longest frame is encoded: an address, an extended id, 8 data bytes
C24_Witness ==
    /\ codec.pos >= 0
    /\ muxnetdevs = MUX_NETDEV_MAX
    /\ codec.dst = MUX_NETDEV_MAX - 1
    /\ codec.cf.can_id.eff
    /\ codec.cf.can_dlc = 8
    /\ Len(xbuff[codec.dst]) = 28


(***************************************************************************)
(* Loading the module: slcan_init on the parameters given with insmod      *)
(***************************************************************************)
\* the values given for a parameter, with the ends of int
ParamValues == ((0 - ParamBelow) .. ParamHigh) \cup {-2147483647 - 1, 2147483647}

\* static int maxchannel = 10; static int muxnetdevs = 2;
DefaultMaxchannel == 10
DefaultMuxnetdevs == 2

\* the module is about to be loaded: each parameter is given or left at
\* its initializer
InitModule ==
    /\ \E gmax \in BOOLEAN, gmux \in BOOLEAN,
          vmax \in ParamValues, vmux \in ParamValues :
          /\ gmax \/ vmax = DefaultMaxchannel
          /\ gmux \/ vmux = DefaultMuxnetdevs
          /\ muxnetdevs = vmux
          /\ param = [loaded |-> FALSE, status |-> "none",
                      maxchannel |-> vmax,
                      given |-> [maxchannel |-> gmax, muxnetdevs |-> gmux],
                      cfg |-> [maxchannel |-> vmax, muxnetdevs |-> vmux]]
    /\ NoChannels

\* a check that forgets the upper limit
SanityMuxnetdevsNoMax(v) == IF v < 1 THEN 1 ELSE v

\* if (muxnetdevs < 1) muxnetdevs = 1;
\* if (muxnetdevs > MUX_NETDEV_MAX) muxnetdevs = MUX_NETDEV_MAX;
SanityMuxnetdevs(v) ==
    LET low == IF v < 1 THEN 1 ELSE v
    IN  IF low > MUX_NETDEV_MAX THEN MUX_NETDEV_MAX ELSE low

\* if (maxchannel < 4) maxchannel = 4;
SanityMaxchannel(v) == IF v < 4 THEN 4 ELSE v

\* slcan_init.  fail: the call that fails, "kzalloc" of slcan_channels or
\* "tty_register_ldisc", or "none"
slcan_init(fail) ==
    /\ ~param.loaded
    /\ param.status = "none"
    /\ muxnetdevs' = SanityMuxnetdevs(muxnetdevs)
    /\ param' = [param EXCEPT
                    !.maxchannel = SanityMaxchannel(@),
                    !.loaded = (fail = "none"),
                    !.status = IF fail = "kzalloc" THEN "-ENOMEM"
                               ELSE IF fail = "tty_register_ldisc"
                               THEN "-EBUSY" ELSE "0"]
    /\ UNCHANGED << chanvars, rxvars, txvars, stats, oops, envvars,
                    procvars, txenv, codec, regvars >>

NextModule ==
    \E fail \in {"none", "kzalloc", "tty_register_ldisc"} : slcan_init(fail)

SpecModule == InitModule /\ [][NextModule]_vars

Max(a, b) == IF a >= b THEN a ELSE b
Min(a, b) == IF a <= b THEN a ELSE b

\* C25: when slcan_init has run, maxchannel is the larger of the value
\* given and 4, and muxnetdevs is the value given brought into 1..10: 1
\* for a smaller value, 10 for a larger one, and 2 when none was given.
C25_Clamping ==
    param.status # "none" =>
        /\ param.maxchannel = Max(param.cfg.maxchannel, 4)
        /\ muxnetdevs = Min(Max(param.cfg.muxnetdevs, 1), 10)
        /\ ~param.given.muxnetdevs => muxnetdevs = 2

\* the module is loaded with both parameters out of range
C25_Witness ==
    /\ param.loaded
    /\ param.given.maxchannel
    /\ param.given.muxnetdevs
    /\ param.cfg.maxchannel < 4
    /\ param.cfg.muxnetdevs > 10
    /\ param.maxchannel = 4
    /\ muxnetdevs = 10


\* slc_xmit returns from slc_encaps: the step that stores xhead
XmitDone == xm.pc = "xleft" /\ xm'.pc = "idle"

\* C26: when slc_xmit returns after slc_encaps built a frame of L bytes of
\* which the tty took a, xhead is at offset a and xleft is L - a, which is
\* in 0..L; if xleft is not 0 the queue of the device is stopped and
\* TTY_DO_WRITE_WAKEUP is set on the tty.
C26_Bookkeeping ==
    [][XmitDone =>
          LET e == xm.dev
              L == Len(xbuff[e])
              a == xm.actual
          IN  /\ a \in 0 .. L
              /\ xhead'[e] = a
              /\ xleft'[e] = L - a
              /\ xleft'[e] \in 0 .. L
              /\ L - a > 0 => (queue_stopped'[e] /\ do_write_wakeup')]_vars


(***************************************************************************)
(* A channel under dev_open and dev_close of its net devices while it      *)
(* receives, transmits and is closed by its tty.  The tty does not call    *)
(* slcan_write_wakeup here: what slc_xmit leaves to write stays pending.   *)
(***************************************************************************)
\* the blocks received: the start of a line, and a character in error
EndpointChunks ==
    { << [ch |-> 116, fp |-> FALSE], [ch |-> 49, fp |-> FALSE] >>,
      << [ch |-> 53, fp |-> TRUE] >> }

slcan_receive_buf_endpoint == ReceiveBuf(EndpointChunks, MaxEndpointBlocks)

NextEndpoint ==
    \/ slcan_receive_buf_endpoint
    \/ slcan_receive_buf_char
    \/ \E e \in Devs, cf \in TxFrames : slc_xmit(e, cf)
    \/ XmitSteps
    \/ \E e \in Devs : slc_open(e)
    \/ \E e \in Devs : dev_close(e)
    \/ slc_close
    \/ slcan_close
    \/ unregister_netdev

SpecEndpoint == InitTx /\ [][NextEndpoint]_vars


\* C27: slc_open of a net device whose channel has no tty returns -ENODEV
\* and changes nothing of the channel and its net devices; with a tty it
\* returns 0, clears SLF_ERROR and starts the queue of the device, and
\* leaves SLF_INUSE, rcount and rbuff, and xhead, xleft and the queue of
\* every other net device as they were.
C27_EndpointOpen ==
    [][\A e \in Devs :
          slc_open(e) =>
              IF ~tty
              THEN /\ txh'.open = "-ENODEV"
                   /\ UNCHANGED << chanvars, rxvars, txvars, stats,
                                   slcan_channels >>
              ELSE /\ txh'.open = "0"
                   /\ ~error'
                   /\ ~queue_stopped'[e]
                   /\ slcan_channels'[0].inuse = slcan_channels[0].inuse
                   /\ UNCHANGED << rcount, rbuff, xhead, xleft, xbuff >>
                   /\ \A f \in Slots \ {e} :
                         queue_stopped'[f] = queue_stopped[f]]_vars

\* slc_open has cleared SLF_ERROR and started the queue of a net device
\* while another one had a part of a frame still to write
C27_Witness ==
    /\ txh.open = "0"
    /\ rcount > 0
    /\ \E e \in Devs, f \in Devs :
          /\ e # f
          /\ running[e]
          /\ ~queue_stopped[e]
          /\ xleft[f] > 0
          /\ queue_stopped[f]


\* C28: slc_close of a net device leaves its queue stopped and its xleft 0,
\* and clears TTY_DO_WRITE_WAKEUP if and only if the channel has a tty; the
\* channel stays in its slot with its tty and all its device pointers, and
\* xhead, xleft and the queue of every other net device stay as they were.
C28_EndpointClose ==
    [][slc_close =>
          LET e == adm.dev IN
          /\ queue_stopped'[e]
          /\ xleft'[e] = 0
          /\ do_write_wakeup' = (IF tty THEN FALSE ELSE do_write_wakeup)
          /\ slcan_channels' = slcan_channels
          /\ UNCHANGED << tty, disc_data, dev, ttys, xhead >>
          /\ \A f \in Slots \ {e} :
                /\ xleft'[f] = xleft[f]
                /\ queue_stopped'[f] = queue_stopped[f]]_vars

\* a net device has been closed, which cleared TTY_DO_WRITE_WAKEUP, while
\* the other one had a part of a frame still to write
C28_Witness ==
    /\ txh.nadm = 1
    /\ txh.open = "none"
    /\ adm.pc = "idle"
    /\ tty
    /\ ~do_write_wakeup
    /\ slcan_channels[0].used
    /\ \E e \in Devs, f \in Devs :
          /\ e # f
          /\ ~running[e]
          /\ queue_stopped[e]
          /\ xleft[e] = 0
          /\ xleft[f] > 0


(***************************************************************************)
(* The accumulation of lines: the lines of the decoder, and lines with a   *)
(* character in error                                                      *)
(***************************************************************************)
\* "t1230" with a character in error after it or before it, and its CR
ErrorChunks ==
    { [i \in 1..7 |->
          IF i = k THEN [ch |-> 53, fp |-> TRUE]
          ELSE [ch |-> (<< 116, 49, 50, 51, 48 >> \o << t >>)
                          [IF i < k THEN i ELSE i - 1],
                fp |-> FALSE]] : k \in {1, 6}, t \in {CR, BEL} }

slcan_receive_buf_acc == ReceiveBuf(DecodeChunks \cup ErrorChunks, MaxLines)

NextAccumulate == slcan_receive_buf_acc \/ slcan_receive_buf_char

SpecAccumulate == InitDecode /\ [][NextAccumulate]_vars

\* the characters of rbuff that count
RbuffLine == [i \in 1..rcount |-> rbuff[i - 1]]

\* the lines of frames that slc_encaps writes
EncodedLines ==
    { SubSeq(l, 1, Len(l) - 1) :
        l \in { slc_encaps_buf(cf, d, muxnetdevs) :
                  cf \in RxFrames, d \in Devs } }

\* C29: a character that is no terminator is stored at rbuff[rcount] and
\* counted while SLF_ERROR is clear and rcount < SLC_MTU, and dropped
\* otherwise.  CR and BEL do the same: they reset rcount and SLF_ERROR, and
\* slc_bump runs if and only if SLF_ERROR was clear and rcount > 4: no
\* frame is delivered otherwise, and the line of a frame is delivered.
C29_Accumulation ==
    [][(CharStep /\ ~Head(rxp).fp) =>
          LET ch == Head(rxp).ch IN
          IF ch \in {CR, BEL}
          THEN /\ rcount' = 0
               /\ ~error'
               /\ slcan_unesc(ChanRx, CR) = slcan_unesc(ChanRx, BEL)
               /\ (error \/ rcount <= 4) => (rxq' = rxq /\ stats' = stats)
               /\ (~error /\ rcount > 4 /\ RbuffLine \in EncodedLines)
                      => Delivers
          ELSE /\ rxq' = rxq
               /\ error' = error
               /\ IF ~error /\ rcount < SLC_MTU
                  THEN /\ rcount' = rcount + 1
                       /\ rbuff' = [rbuff EXCEPT ![rcount] = ch]
                  ELSE UNCHANGED << rcount, rbuff >>]_vars

\* "x1230" and then "t123" were ended by a BEL and delivered nothing, though
\* rbuff then read "t1230"
C29_Witness ==
    /\ Len(hist.done) = 2
    /\ hist.done[1].line = << 120, 49, 50, 51, 48 >>
    /\ hist.done[2].line = << 116, 49, 50, 51 >>
    /\ hist.last = "term"
    /\ rxq = << >>
    /\ rcount = 0
    /\ rbuff[4] = 48


(***************************************************************************)
(* The dlc character: lines that differ in it alone                        *)
(***************************************************************************)
MaxDlcLines == 1

\* "112233445566778899"
DlcPayload ==
    << 49, 49, 50, 50, 51, 51, 52, 52, 53, 53, 54, 54, 55, 55, 56, 56, 57, 57 >>

\* '0' to '9', and '/', ':', 'A', 'a'
DlcChars == (48..57) \cup {47, 58, 65, 97}

\* an address or none, "t123" or "T12345678", the dlc character and two
\* payload characters for each byte a digit announces (two after no digit)
DlcLines ==
    { a \o h \o << d >>
        \o SubSeq(DlcPayload, 1, IF d \in 48..57 THEN 2 * (d - 48) ELSE 2) :
      a \in { << >>, << 48 >>, << 49 >> },
      h \in { << 116, 49, 50, 51 >>,
              << 84, 49, 50, 51, 52, 53, 54, 55, 56 >> },
      d \in DlcChars }

DlcChunks ==
    { [i \in 1..(Len(l) + 1) |->
          [ch |-> IF i <= Len(l) THEN l[i] ELSE CR, fp |-> FALSE]] :
      l \in DlcLines }

slcan_receive_buf_dlc == ReceiveBuf(DlcChunks, MaxDlcLines)

NextDlc == slcan_receive_buf_dlc \/ slcan_receive_buf_char

SpecDlc == InitDecode /\ [][NextDlc]_vars

dev_open_chan(c, j) ==
    /\ slcan_channels[c].used
    /\ slcan_channels[c].tty # 0
    /\ slcan_channels[c].dev[j] = "reg"
    /\ slcan_channels' = [slcan_channels EXCEPT ![c].dev[j] = "up"]
    /\ UNCHANGED << muxnetdevs, param, reg, ttys, opn, chanvars, rxvars, txvars, stats,
                    oops, envvars, procvars, txenv, codec >>

NextSweep ==
    \/ \E t \in Ttys : slcan_open(t, TRUE, TRUE, "none", 0)
    \/ \E c \in Chans, j \in Devs : dev_open_chan(c, j)
    \/ \E t \in Ttys : slcan_close_tty(t)
    \/ \E c \in Chans : unregister_netdev_chan(c)

SpecSweep == InitOpen /\ [][NextSweep]_vars

\* a slcan_open that binds a tty: slc_sync has run in it
OpenBinds == \E t \in Ttys : ttys[t] = -1 /\ ttys'[t] # -1

\* C31: after the slc_sync of a slcan_open, every net device 0..muxnetdevs-1
\* that was up on a channel without tty, in whatever slot, is no longer up;
\* the net devices of channels with a tty are as they were.
C31_Sweep ==
    [][OpenBinds =>
          \A c \in Chans :
             slcan_channels[c].used =>
                \A j \in Devs :
                   IF slcan_channels[c].tty = 0
                   THEN slcan_channels[c].dev[j] = "up"
                           => slcan_channels'[c].dev[j] # "up"
                   ELSE slcan_channels'[c].dev[j] = slcan_channels[c].dev[j]
      ]_vars


(***************************************************************************)
(* slcan_open step by step under rtnl_lock, beside slc_free_netdev         *)
(***************************************************************************)
RegRest ==
    << muxnetdevs, param, chanvars, rxvars, txvars, stats, oops, envvars,
       procvars, txenv, codec >>

\* rtnl_lock() of the slcan_open of tty t, by a caller that passes the two
\* tests before it
rtnl_lock(t) ==
    /\ reg.oops = ""
    /\ reg.open[t].pc = "idle"
    /\ reg.rtnl = 0
    /\ reg' = [reg EXCEPT !.rtnl = t,
                          !.open[t] = [pc |-> "sync", i |-> 0, j |-> 0,
                                       freed |-> FALSE]]
    /\ UNCHANGED << slcan_channels, ttys, opn, RegRest >>

\* slc_sync: sl = slcan_channels[i], and the break at NULL
slc_sync_slot(t) ==
    /\ reg.oops = ""
    /\ reg.open[t].pc = "sync"
    /\ LET i == reg.open[t].i IN
       reg' = [reg EXCEPT !.open[t].pc =
                  IF i >= maxchannel \/ ~slcan_channels[i].used
                  THEN "check" ELSE "tty"]
    /\ UNCHANGED << slcan_channels, ttys, opn, RegRest >>

\* slc_sync: a read through sl, which kfree may have taken meanwhile
UseAfterFree(t, r) ==
    [r EXCEPT !.oops = IF r.open[t].freed
                       THEN "slc_sync: sl read after kfree(sl)" ELSE @]

\* slc_sync: the j-th turn of the inner loop is over
SyncNext(t, r) ==
    LET o == r.open[t] IN
    IF o.j + 1 < muxnetdevs
    THEN [r EXCEPT !.open[t].pc = "dev", !.open[t].j = o.j + 1]
    ELSE [r EXCEPT !.open[t] = [pc |-> "sync", i |-> o.i + 1, j |-> 0,
                                freed |-> FALSE]]

\* slc_sync: if (sl->tty) continue
slc_sync_tty(t) ==
    /\ reg.oops = ""
    /\ reg.open[t].pc = "tty"
    /\ LET i == reg.open[t].i
           r == UseAfterFree(t, reg)
       IN  reg' = IF slcan_channels[i].tty # 0
                  THEN [r EXCEPT !.open[t] =
                           [pc |-> "sync", i |-> i + 1, j |-> 0,
                            freed |-> FALSE]]
                  ELSE [r EXCEPT !.open[t].pc = "dev", !.open[t].j = 0]
    /\ UNCHANGED << slcan_channels, ttys, opn, RegRest >>

\* slc_sync: if (sl->dev[i] == NULL) continue
slc_sync_dev(t) ==
    /\ reg.oops = ""
    /\ reg.open[t].pc = "dev"
    /\ LET i == reg.open[t].i
           r == UseAfterFree(t, reg)
       IN  reg' = IF slcan_channels[i].dev[i] = "null"
                  THEN SyncNext(t, r)
                  ELSE [r EXCEPT !.open[t].pc = "flags"]
    /\ UNCHANGED << slcan_channels, ttys, opn, RegRest >>

\* slc_sync: the second read of sl->dev[i], for its flags, and dev_close
slc_sync_flags(t) ==
    /\ reg.oops = ""
    /\ reg.open[t].pc = "flags"
    /\ LET i == reg.open[t].i
           r == UseAfterFree(t, reg)
           st == slcan_channels[i].dev[i]
       IN  /\ reg' = IF ~reg.open[t].freed /\ st = "null"
                     THEN [SyncNext(t, r) EXCEPT
                              !.oops = "slc_sync: sl->dev[i] is NULL"]
                     ELSE SyncNext(t, r)
           /\ slcan_channels' =
                 IF ~reg.open[t].freed /\ st = "up"
                 THEN [slcan_channels EXCEPT ![i].dev[i] = "reg"]
                 ELSE slcan_channels
    /\ UNCHANGED << ttys, opn, RegRest >>

\* slcan_open: the test of tty->disc_data
slcan_open_check(t) ==
    /\ reg.oops = ""
    /\ reg.open[t].pc = "check"
    /\ reg' = [reg EXCEPT !.open[t].pc =
                  IF AlreadyConnected(t) THEN "unlock" ELSE "scan",
                          !.open[t].i = 0]
    /\ UNCHANGED << slcan_channels, ttys, opn, RegRest >>

\* slc_alloc: one turn of the scan for a NULL slot
slc_alloc_scan(t) ==
    /\ reg.oops = ""
    /\ reg.open[t].pc = "scan"
    /\ LET i == reg.open[t].i IN
       reg' = IF i < maxchannel /\ slcan_channels[i].used
              THEN [reg EXCEPT !.open[t].i = i + 1]
              ELSE [reg EXCEPT !.open[t].pc =
                       IF i >= maxchannel THEN "unlock" ELSE "store"]
    /\ UNCHANGED << slcan_channels, ttys, opn, RegRest >>

\* slc_alloc: slcan_channels[i] = sl, and the rest of slcan_open, every
\* allocation and every register_netdevice succeeding
slc_alloc_store(t) ==
    /\ reg.oops = ""
    /\ reg.open[t].pc = "store"
    /\ LET i == reg.open[t].i IN
       /\ reg' = [reg EXCEPT !.open[t].pc = "unlock",
                             !.lost = @ \/ slcan_channels[i].used]
       /\ slcan_channels' =
             [slcan_channels EXCEPT ![i] =
                 [used |-> TRUE, tty |-> t, inuse |-> TRUE,
                  closing |-> FALSE,
                  dev |-> [k \in Slots |->
                              IF k < muxnetdevs THEN "reg" ELSE "null"]]]
       /\ ttys' = [ttys EXCEPT ![t] = i]
    /\ UNCHANGED << opn, RegRest >>

\* rtnl_unlock() of slcan_open
rtnl_unlock(t) ==
    /\ reg.oops = ""
    /\ reg.open[t].pc = "unlock"
    /\ reg' = [reg EXCEPT !.rtnl = 0, !.open[t].pc = "idle"]
    /\ UNCHANGED << slcan_channels, ttys, opn, RegRest >>

\* unregister_netdev(sl->dev[i]) of slcan_close for the channel in slot c,
\* up to the call of the destructor: the device is closed and unregistered
\* under rtnl_lock
unregister_netdev_rtnl(c) ==
    /\ reg.oops = ""
    /\ reg.rtnl = 0
    /\ reg.free.pc = "idle"
    /\ slcan_channels[c].used
    /\ slcan_channels[c].closing
    /\ \A k \in Slots : slcan_channels[c].dev[k] # "gone"
    /\ LET i == CHOOSE k \in Slots :
                   /\ slcan_channels[c].dev[k] # "null"
                   /\ \A m \in 0 .. (k - 1) : slcan_channels[c].dev[m] = "null"
       IN  slcan_channels' = [slcan_channels EXCEPT ![c].dev[i] = "gone"]
    /\ UNCHANGED << reg, ttys, opn, RegRest >>

\* slc_free_netdev of the unregistered net device of the channel in slot
\* c, up to the count of the devices left
slc_free_netdev_dev(c) ==
    /\ reg.oops = ""
    /\ reg.free.pc = "idle"
    /\ slcan_channels[c].used
    /\ \E k \in Slots :
          /\ slcan_channels[c].dev[k] = "gone"
          /\ slcan_channels' = [slcan_channels EXCEPT ![c].dev[k] = "null"]
          /\ reg' = IF DevsOf(slcan_channels[c]) = {k}
                    THEN [reg EXCEPT !.free = [pc |-> "loop", i |-> 0,
                                               c |-> c]]
                    ELSE reg
    /\ UNCHANGED << ttys, opn, RegRest >>

\* slc_free_netdev: one turn of the loop that clears the slot of sl
slc_free_netdev_slot ==
    /\ reg.oops = ""
    /\ reg.free.pc = "loop"
    /\ LET i == reg.free.i
           c == reg.free.c
       IN  IF i < maxchannel
           THEN /\ slcan_channels' =
                      IF i = c THEN [slcan_channels EXCEPT ![i] = NoChannel]
                      ELSE slcan_channels
                /\ reg' = [reg EXCEPT !.free.i = i + 1]
           ELSE /\ reg' = [reg EXCEPT !.free.pc = "kfree"]
                /\ UNCHANGED slcan_channels
    /\ UNCHANGED << ttys, opn, RegRest >>

\* slc_free_netdev: kfree(sl); a slc_sync that has read this sl from the
\* slot now holds a pointer to freed memory
slc_free_netdev_kfree ==
    /\ reg.oops = ""
    /\ reg.free.pc = "kfree"
    /\ reg' = [reg EXCEPT
                  !.free.pc = "idle",
                  !.open = [t \in Ttys |->
                               IF /\ @[t].pc \in {"tty", "dev", "flags"}
                                  /\ @[t].i = reg.free.c
                               THEN [@[t] EXCEPT !.freed = TRUE]
                               ELSE @[t]]]
    /\ UNCHANGED << slcan_channels, ttys, opn, RegRest >>

\* the ttys that are opened and closed here
MaxOpenTty == 2
OpenTtys == 1 .. MaxOpenTty

\* the steps of slcan_open for two ttys, of slcan_close for one channel at
\* a time, and of the destructor; a fault ends them
NextRegistry ==
    \/ \E t \in OpenTtys : rtnl_lock(t)
    \/ \E t \in OpenTtys : slc_sync_slot(t)
    \/ \E t \in OpenTtys : slc_sync_tty(t)
    \/ \E t \in OpenTtys : slc_sync_dev(t)
    \/ \E t \in OpenTtys : slc_sync_flags(t)
    \/ \E t \in OpenTtys : slcan_open_check(t)
    \/ \E t \in OpenTtys : slc_alloc_scan(t)
    \/ \E t \in OpenTtys : slc_alloc_store(t)
    \/ \E t \in OpenTtys : rtnl_unlock(t)
    \/ \E t \in OpenTtys :
          /\ reg.oops = ""
          /\ reg.open[t].pc = "idle"
          /\ \A c \in Chans : ~slcan_channels[c].closing
          /\ slcan_close_tty(t)
    \/ \E c \in Chans : unregister_netdev_rtnl(c)
    \/ \E c \in Chans : slc_free_netdev_dev(c)
    \/ slc_free_netdev_slot
    \/ slc_free_netdev_kfree

SpecRegistry == InitOpen /\ [][NextRegistry]_vars

\* a slcan_open is between its rtnl_lock and its rtnl_unlock
Allocating == reg.rtnl # 0

\* slc_free_netdev is in its loop over slcan_channels[], or at its kfree
Releasing == reg.free.pc # "idle"

\* C32: the scan and store of slcan_open and the release of
\* slc_free_netdev are never at work on slcan_channels[] at the same time;
\* two ttys never have the same slot, no slot is stored into while it
\* holds a channel, and no slot is cleared that holds a channel with a tty.
C32_Serialized ==
    /\ ~(Allocating /\ Releasing)
    /\ \A t1 \in Ttys, t2 \in Ttys :
          (t1 # t2 /\ ttys[t1] # -1) => ttys[t1] # ttys[t2]
    /\ ~reg.lost
    /\ \A t \in Ttys :
          ttys[t] # -1 =>
             slcan_channels[ttys[t]].used /\ slcan_channels[ttys[t]].tty = t


\* C33: a net device with xleft # 0 has its queue stopped, whatever the
\* interleaving of slc_xmit, slcan_write_wakeup, slc_open and slc_close: no
\* frame is encoded into an xbuff that holds unsent bytes.
C33_PendingStopped ==
    \A e \in Devs : xleft[e] # 0 => queue_stopped[e]


\* C34: while the channel has its tty and no call is in progress, a
\* running net device that has xleft # 0, or whose queue slc_xmit has
\* stopped, has TTY_DO_WRITE_WAKEUP set on the tty: neither
\* slcan_write_wakeup at another, idle net device nor slc_close of another
\* net device clears it.
C34_WakeupRequested ==
    (tty /\ Quiet) =>
       \A e \in Devs :
          (running[e] /\ (xleft[e] # 0 \/ queue_stopped[e]))
             => do_write_wakeup


\* the tty has accepted some bytes of the frame in xbuff[e] and not the rest
PartlyWritten(e) == sent[e] # << >> /\ xleft[e] > 0

\* the tty accepts bytes of net device f in this step
AcceptsFrom(f) == sent'[f] # sent[f] /\ sent'[f] # << >>

\* C35: the bytes the tty accepts are a concatenation of whole frames:
\* while a frame of one net device is partly written, the tty accepts no
\* byte of another net device of the channel.
C35_Contiguous ==
    [][\A e \in Devs, f \in Devs :
          (e # f /\ PartlyWritten(e)) => ~AcceptsFrom(f)]_vars


\* C36: slc_close of a net device leaves rcount and the characters in rbuff
\* as they were, so that a line of which the tty has delivered a part goes
\* on where it was.
C36_CloseKeepsReceive ==
    [][slc_close => (rcount' = rcount /\ rbuff' = rbuff)]_vars


\* the tty calls slcan_receive_buf in this step
ReceiveCall == hist'.calls = hist.calls + 1

\* C37: with a net device k > 0 of the channel running, slcan_receive_buf
\* takes up the characters the tty delivers, whether or not net device 0
\* is running, so that a frame addressed to k is accumulated, decoded and
\* delivered to k.
C37_ReceiveWithoutZero ==
    [][(ReceiveCall /\ disc_data /\ \E k \in Devs : k > 0 /\ running[k])
          => rxp' # << >>]_vars


\* C38: while a channel has net device pointers that are NULL, neither
\* slcan_receive_buf and slcan_unesc (with the counters of sl->dev[0] they
\* charge), nor slcan_write_wakeup, nor slc_sync reads a net device through
\* a NULL pointer.
C38_NullTolerated ==
    /\ oops \notin {"slcan_receive_buf: sl->dev[0] is NULL",
                    "slcan_unesc: sl->dev[0] is NULL",
                    "slcan_write_wakeup: sl->dev[i] is NULL"}
    /\ reg.oops # "slc_sync: sl->dev[i] is NULL"


\* C39: a slcan_open in which a register_netdevice fails returns the error
\* with the tty unbound and slcan_channels[] as it was before the call: the
\* slot taken for the new channel is NULL again.
C39_FailedOpenLeaksNothing ==
    opn.ret = "-ENOMEM" => opn.kept

====
